---- MODULE Spec2Model ----
(***************************************************************************)
(* Model of exutils: the handler wrapper (handler / asyncHandler) and the  *)
(* promise reactions it registers, the status-name derivation              *)
(* (getErrorName), HttpError and the error middleware, the view made by    *)
(* proxyWrapper, and the two versions of the HttpStatus table.             *)
(***************************************************************************)
EXTENDS Integers, Sequences, FiniteSets, TLC

\* Number of invocations of one wrapped handler that may be in flight.
MaxInv == 2
\* Range of numbers handed to getErrorName.
MinStatus == 380
MaxStatus == 530

Invs == 1..MaxInv

(***************************************************************************)
(* JavaScript values.  Every value is a record [k, n]: k is the kind and   *)
(* n the payload (a number's value, a string's length, an object's         *)
(* identity, an ApiRes instance's status, a response object's identity).   *)
(***************************************************************************)
Val(k, n) == [k |-> k, n |-> n]
Undefined == Val("undefined", 0)
Null == Val("null", 0)
False == Val("boolean", 0)
True == Val("boolean", 1)
Num(n) == Val("number", n)
NaN == Val("NaN", 0)
Str(len) == Val("string", len)
Obj(id) == Val("object", id)
Err(id) == Val("Error", id)
\* an instance of the ApiRes class with the given status
ApiRes(status) == Val("ApiRes", status)
\* a plain object that has a status and a toJson member but is no ApiRes
Duck(status) == Val("duck", status)
\* the response object of invocation r
ResObj(r) == Val("res", r)
\* the error a response method raises when it cannot write
WriteErr == Err(2)
\* an object with a then method that is no instance of Promise
Thenable(id) == Val("thenable", id)

FalsyValues == {Undefined, Null, False, Num(0), Str(0), NaN}
TruthyValues == {True, Num(7), Str(12), Obj(1), Err(1), ApiRes(200),
                 ApiRes(201), Duck(201), Thenable(1)}
                \cup {ResObj(r) : r \in Invs}
Values == FalsyValues \cup TruthyValues
\* the values used when several invocations interleave
SmallValues == {Undefined, Str(12), ApiRes(201)} \cup {ResObj(r) : r \in Invs}

\* JavaScript ToBoolean, as used by `result &&`
ToBoolean(v) ==
  CASE v.k \in {"undefined", "null", "NaN"} -> FALSE
    [] v.k \in {"boolean", "number", "string"} -> v.n /= 0
    [] OTHER -> TRUE

\* `result instanceof ApiRes`
isApiRes(v) == v.k = "ApiRes"

\* ApiRes.toJson(): the JSON body of an ApiRes instance
toJson(v) == Val("json", v.n)

\* where a response method may raise during one invocation
FailPoints == {"none", "status", "body"}
\* what the user function itself does before it completes
UserActs == {"none", "responded", "next"}
\* the failure points and user acts used when several invocations interleave
SmallFailPoints == {"none", "body"}
SmallUserActs == {"none"}

VARIABLES
  pc,        \* pc[i]: "idle" | "returned" (the wrapped handler returned)
             \*        | "raised" (it raised to its caller)
  func,      \* func[i]: what the user function did when invoked
  p0,        \* p0[i]: the promise returned by the user function
  p1,        \* p1[i]: the promise derived by result.then(...)
  p2,        \* p2[i]: the promise derived by .catch(next)
  resLog,    \* resLog[r]: calls made on response object r
  nextLog,   \* nextLog[k]: calls made on the next function of invocation k
  thenable,  \* thenable[i]: the state of a thenable the user function returned
  statusArg, \* the argument of getErrorName
  errName,   \* the result of getErrorName
  subject,   \* the value under examination: an error object or another value
  ctorArgs,  \* the arguments subject was constructed with, if it was
  wire,      \* the result of subject.toJson()
  isHttp,    \* the result of HttpError.isHttpError(subject)
  ehOpts,    \* the options globalErrorHandler was created with
  ehCalls,   \* the calls the error middleware made, in order
  ehRaised,  \* whether the error middleware raised
  inst,      \* the instance behind the view proxyWrapper returned
  viewOp,    \* the last operation made through the view and its result
  thisArg,   \* the `this` the last method called through the view ran with
  lookup     \* a code -> name -> code lookup in one version of HttpStatus

vars == <<pc, func, p0, p1, p2, resLog, nextLog, thenable, statusArg, errName,
          subject, ctorArgs, wire, isHttp, ehOpts, ehCalls, ehRaised,
          inst, viewOp, thisArg, lookup>>
errVars == <<subject, ctorArgs, wire, isHttp, ehOpts, ehCalls, ehRaised>>
handlerVars == <<pc, func, p0, p1, p2, resLog, nextLog, thenable>>
proxyVars == <<inst, viewOp, thisArg>>
tableVars == <<lookup>>
nameVars == <<statusArg, errName>>

\* an error object or any other value that can be thrown: what its class is
\* and what reading its properties yields
ErrValue(cls, status, msg, detail, name, message, messageIsName, stack) ==
  [cls |-> cls, status |-> status, msg |-> msg, detail |-> detail,
   name |-> name, message |-> message, messageIsName |-> messageIsName,
   stack |-> stack]
NoValue ==
  ErrValue("none", Undefined, Undefined, Undefined, <<>>, Undefined, FALSE,
           Undefined)
NoCtorArgs ==
  [cls |-> "none", msg |-> Undefined, status |-> Undefined,
   detail |-> Undefined]
\* a wire body {status, error, message, detail?}
Body(status, error, message, hasDetail, detail) ==
  [status |-> status, error |-> error, message |-> message,
   hasDetail |-> hasDetail, detail |-> detail]
NoBody == Body(Undefined, <<>>, Undefined, FALSE, Undefined)
\* options of globalErrorHandler; given = FALSE when called with no argument
Options(given, isDev, write) == [given |-> given, isDev |-> isDev, write |-> write]
NoOptions == Options(FALSE, "unset", FALSE)
\* nothing constructed, examined or handled yet
ErrIdle ==
  /\ subject = NoValue
  /\ ctorArgs = NoCtorArgs
  /\ wire = NoBody
  /\ isHttp = "unset"
  /\ ehOpts = NoOptions
  /\ ehCalls = <<>>
  /\ ehRaised = "unset"

\* the names read, written, deleted and defined through a view
PropNames == {"message", "count", "getData", "extra"}
\* a name that is no property
Absent == Val("absent", 0)
\* a function; id 1 is the method getData of the controller class
Function(id) == Val("function", id)
NoProps == [name \in PropNames |-> Absent]
\* an instance: its own properties, those of its prototype, and how
\* proxyWrapper came by it
Inst(made, first, args, own, proto) ==
  [made |-> made, first |-> first, args |-> args, own |-> own, proto |-> proto,
   atWrap |-> own]
NoInst == Inst("none", "none", <<>>, NoProps, NoProps)
\* one operation through the view
ViewOp(op, prop, value, wrapped, this, raised, changed) ==
  [op |-> op, prop |-> prop, value |-> value, wrapped |-> wrapped,
   this |-> this, raised |-> raised, changed |-> changed]
NoViewOp == ViewOp("none", "none", Undefined, FALSE, "none", FALSE, FALSE)
\* no view made yet
ProxyIdle ==
  /\ inst = NoInst
  /\ viewOp = NoViewOp
  /\ thisArg = "none"

\* a lookup: the key of a constant, its code, the name entry of the code,
\* and the code of the constant that has this name
Lookup(version, key, stage, code, name, back) ==
  [version |-> version, key |-> key, stage |-> stage, code |-> code,
   name |-> name, back |-> back]
NoLookup == Lookup(0, "", "idle", 0, "", 0)
TableIdle == lookup = NoLookup

NoPromise == [st |-> "none", v |-> Undefined]
Pending == [st |-> "pending", v |-> Undefined]
Fulfilled(v) == [st |-> "fulfilled", v |-> v]
Rejected(v) == [st |-> "rejected", v |-> v]

\* one call on a response object or on next
Call(by, i, op, arg, ok) ==
  [by |-> by, inv |-> i, op |-> op, arg |-> arg, ok |-> ok]

\* the arguments the framework passes to invocation i
resArg(i) == i
nextArg(i) == i

\* res.status(result.status).json(result.toJson())
structuredWrite(result, i, f) ==
  CASE f = "status" ->
         [calls |-> <<Call("wrapper", i, "status", Num(result.n), FALSE)>>,
          raised |-> TRUE]
    [] f = "body" ->
         [calls |-> <<Call("wrapper", i, "status", Num(result.n), TRUE),
                      Call("wrapper", i, "json", toJson(result), FALSE)>>,
          raised |-> TRUE]
    [] OTHER ->
         [calls |-> <<Call("wrapper", i, "status", Num(result.n), TRUE),
                      Call("wrapper", i, "json", toJson(result), TRUE)>>,
          raised |-> FALSE]

\* res.send(result)
rawSend(result, i, f) ==
  IF f = "body"
  THEN [calls |-> <<Call("wrapper", i, "send", result, FALSE)>>, raised |-> TRUE]
  ELSE [calls |-> <<Call("wrapper", i, "send", result, TRUE)>>, raised |-> FALSE]

\* neither branch taken
noWrite == [calls |-> <<>>, raised |-> FALSE]

\* handleResult that takes anything with a status and a toJson for an ApiRes
handleResult_capability(result, res, i, f) ==
  IF result.k \in {"ApiRes", "duck"}
  THEN structuredWrite(result, i, f)
  ELSE IF ToBoolean(result) /\ result /= ResObj(res)
  THEN rawSend(result, i, f)
  ELSE noWrite

\* handleResult that sends a raw value with an explicit 200 and json
handleResult_jsonForRaw(result, res, i, f) ==
  IF isApiRes(result)
  THEN structuredWrite(result, i, f)
  ELSE IF ToBoolean(result) /\ result /= ResObj(res)
  THEN [calls |-> <<Call("wrapper", i, "status", Num(200), TRUE),
                    Call("wrapper", i, "json", result, f /= "body")>>,
        raised |-> f = "body"]
  ELSE noWrite

\* handleResult without the `result !== res` test
handleResult_noIdentityCheck(result, res, i, f) ==
  IF isApiRes(result)
  THEN structuredWrite(result, i, f)
  ELSE IF ToBoolean(result)
  THEN rawSend(result, i, f)
  ELSE noWrite

(***************************************************************************)
(* handleResult(result, res): the calls it makes on res and whether it     *)
(* raised.  f is the point at which the response object raises.            *)
(***************************************************************************)
handleResult(result, res, i, f) ==
  IF isApiRes(result)
  THEN structuredWrite(result, i, f)
  ELSE IF ToBoolean(result) /\ result /= ResObj(res)
  THEN rawSend(result, i, f)
  ELSE noWrite

\* what the user function itself does to res and next while it runs
userResCalls(i, u) ==
  IF u = "responded"
  THEN <<Call("user", i, "status", Num(200), TRUE),
         Call("user", i, "json", Obj(9), TRUE)>>
  ELSE <<>>
userNextCalls(i, u) ==
  IF u = "next" THEN <<Call("user", i, "next", Undefined, TRUE)>> ELSE <<>>

\* a catch block that forwards only truthy errors
catchBlock_dropsFalsy(i, error) ==
  IF ToBoolean(error)
  THEN <<Call("wrapper", i, "next", error, TRUE)>>
  ELSE <<>>

\* catch (error) { next(error) }
catchBlock(i, error) == <<Call("wrapper", i, "next", error, TRUE)>>

\* a wrapper that calls next() once the result has been handled
handlerBody_nextAfterResult(i, res, out, f) ==
  CASE out.kind = "throw" ->
         [resCalls |-> <<>>, nextCalls |-> catchBlock(i, out.v),
          registered |-> FALSE, raised |-> FALSE]
    [] out.kind = "promise" ->
         [resCalls |-> <<>>, nextCalls |-> <<>>, registered |-> TRUE,
          raised |-> FALSE]
    [] OTHER ->
         LET hr == handleResult(out.v, res, i, f)
         IN [resCalls |-> hr.calls,
             nextCalls |-> IF hr.raised THEN catchBlock(i, WriteErr)
                           ELSE <<Call("wrapper", i, "next", Undefined, TRUE)>>,
             registered |-> FALSE, raised |-> FALSE]

\* a wrapper that passes control on as soon as it holds a promise
handlerBody_nextOnPromise(i, res, out, f) ==
  CASE out.kind = "throw" ->
         [resCalls |-> <<>>, nextCalls |-> catchBlock(i, out.v),
          registered |-> FALSE, raised |-> FALSE]
    [] out.kind = "promise" ->
         [resCalls |-> <<>>,
          nextCalls |-> <<Call("wrapper", i, "next", Undefined, TRUE)>>,
          registered |-> TRUE, raised |-> FALSE]
    [] OTHER ->
         LET hr == handleResult(out.v, res, i, f)
         IN [resCalls |-> hr.calls,
             nextCalls |-> IF hr.raised THEN catchBlock(i, WriteErr) ELSE <<>>,
             registered |-> FALSE, raised |-> FALSE]

\* a wrapper whose try block ends before the result is handled
handlerBody_writeOutsideTry(i, res, out, f) ==
  CASE out.kind = "throw" ->
         [resCalls |-> <<>>, nextCalls |-> catchBlock(i, out.v),
          registered |-> FALSE, raised |-> FALSE]
    [] out.kind = "promise" ->
         [resCalls |-> <<>>, nextCalls |-> <<>>, registered |-> TRUE,
          raised |-> FALSE]
    [] OTHER ->
         LET hr == handleResult(out.v, res, i, f)
         IN [resCalls |-> hr.calls, nextCalls |-> <<>>,
             registered |-> FALSE, raised |-> hr.raised]

\* a wrapper that waits for everything that has a then method
handlerBody_awaitsThenable(i, res, out, f) ==
  CASE out.kind = "throw" ->
         [resCalls |-> <<>>, nextCalls |-> catchBlock(i, out.v),
          registered |-> FALSE, raised |-> FALSE]
    [] out.kind = "promise" \/ out.v.k = "thenable" ->
         [resCalls |-> <<>>, nextCalls |-> <<>>, registered |-> TRUE,
          raised |-> FALSE]
    [] OTHER ->
         LET hr == handleResult(out.v, res, i, f)
         IN [resCalls |-> hr.calls,
             nextCalls |-> IF hr.raised THEN catchBlock(i, WriteErr) ELSE <<>>,
             registered |-> FALSE, raised |-> FALSE]

(***************************************************************************)
(* The body of the wrapped handler for one outcome of func(req, res, next) *)
(* out.kind: "throw" | "return" | "promise".  Result: the calls made on    *)
(* res, the calls made on next, whether reactions were registered, and     *)
(* whether the wrapped handler raised to its caller.                       *)
(***************************************************************************)
handlerBody(i, res, out, f) ==
  CASE out.kind = "throw" ->
         [resCalls |-> <<>>, nextCalls |-> catchBlock(i, out.v),
          registered |-> FALSE, raised |-> FALSE]
    [] out.kind = "promise" ->
         [resCalls |-> <<>>, nextCalls |-> <<>>, registered |-> TRUE,
          raised |-> FALSE]
    [] OTHER ->
         LET hr == handleResult(out.v, res, i, f)
         IN [resCalls |-> hr.calls,
             nextCalls |-> IF hr.raised THEN catchBlock(i, WriteErr) ELSE <<>>,
             registered |-> FALSE, raised |-> FALSE]

\* a continuation that sends every resolved value as it is
thenCallback_sendsValue(value, res, i, f) == rawSend(value, i, f)

\* value => handleResult(value, res)
thenCallback(value, res, i, f) == handleResult(value, res, i, f)

\* a rejection handler that calls next without the reason
catchCallback_noReason(i, reason) ==
  <<Call("wrapper", i, "next", Undefined, TRUE)>>

\* .catch(next)
catchCallback(i, reason) == <<Call("wrapper", i, "next", reason, TRUE)>>

\* a wrapper that keeps the response object of the first call
capturedRes_first(i) == resArg(1)

\* the response object and the next function the closure of invocation i holds
capturedRes(i) == resArg(i)
capturedNext(i) == nextArg(i)

(***************************************************************************)
(* The wrapped handler (req, res, next) => { try { ... } catch { ... } }   *)
(* called once for invocation i; the user function's outcome, its own      *)
(* calls (u) and the response object's failure point (f) are inputs.       *)
(***************************************************************************)
wrappedHandler(i, out, u, f) ==
  LET hb == handlerBody(i, resArg(i), out, f)
  IN /\ pc[i] = "idle"
     /\ pc' = [pc EXCEPT ![i] = IF hb.raised THEN "raised" ELSE "returned"]
     /\ func' = [func EXCEPT ![i] = [kind |-> out.kind, v |-> out.v, f |-> f]]
     /\ resLog' = [resLog EXCEPT ![resArg(i)] =
                     @ \o userResCalls(i, u) \o hb.resCalls]
     /\ nextLog' = [nextLog EXCEPT ![nextArg(i)] =
                      @ \o userNextCalls(i, u) \o hb.nextCalls]
     /\ p0' = [p0 EXCEPT ![i] = IF hb.registered THEN Pending ELSE NoPromise]
     /\ p1' = [p1 EXCEPT ![i] = IF hb.registered THEN Pending ELSE NoPromise]
     /\ p2' = [p2 EXCEPT ![i] = IF hb.registered THEN Pending ELSE NoPromise]
     /\ thenable' = [thenable EXCEPT ![i] =
                       IF out.kind = "return" /\ out.v.k = "thenable"
                       THEN Pending ELSE NoPromise]

\* the framework calls the wrapped handler registered as a route
invoke(i, out, u, f) ==
  /\ wrappedHandler(i, out, u, f)
  /\ UNCHANGED <<nameVars, errVars, proxyVars, tableVars>>

handler(i, VS, US, FS) ==
  \/ \E v \in VS, u \in US :
       invoke(i, [kind |-> "throw", v |-> v], u, "none")
  \/ \E v \in VS, u \in US, f \in FS :
       invoke(i, [kind |-> "return", v |-> v], u, f)
  \/ \E f \in FS :
       invoke(i, [kind |-> "promise", v |-> Undefined], "none", f)

\* the promise returned by the user function settles
settle(i, VS, US) ==
  /\ p0[i].st = "pending"
  /\ \E v \in VS, u \in US :
       /\ \/ p0' = [p0 EXCEPT ![i] = Fulfilled(v)]
          \/ p0' = [p0 EXCEPT ![i] = Rejected(v)]
       /\ resLog' = [resLog EXCEPT ![resArg(i)] = @ \o userResCalls(i, u)]
       /\ nextLog' = [nextLog EXCEPT ![nextArg(i)] = @ \o userNextCalls(i, u)]
  /\ UNCHANGED <<pc, func, p1, p2, thenable, nameVars, errVars, proxyVars,
                 tableVars>>

\* a thenable the user function returned settles; nobody called its then
thenableSettles(i, VS) ==
  /\ thenable[i].st = "pending"
  /\ \E v \in VS :
       \/ thenable' = [thenable EXCEPT ![i] = Fulfilled(v)]
       \/ thenable' = [thenable EXCEPT ![i] = Rejected(v)]
  /\ UNCHANGED <<pc, func, p0, p1, p2, resLog, nextLog, nameVars, errVars,
                 proxyVars, tableVars>>

\* a reaction job that is run for a fulfilled promise only
thenReaction_onlyFulfilled(i) ==
  /\ p0[i].st = "fulfilled"
  /\ p1[i].st = "pending"
  /\ LET hr == thenCallback(p0[i].v, capturedRes(i), i, func[i].f)
     IN /\ resLog' = [resLog EXCEPT ![capturedRes(i)] = @ \o hr.calls]
        /\ p1' = [p1 EXCEPT ![i] = IF hr.raised THEN Rejected(WriteErr)
                                   ELSE Fulfilled(Undefined)]
  /\ UNCHANGED <<pc, func, p0, p2, nextLog, thenable, nameVars, errVars,
                 proxyVars, tableVars>>

\* the reaction job of result.then(value => handleResult(value, res))
thenReaction(i) ==
  /\ p0[i].st \in {"fulfilled", "rejected"}
  /\ p1[i].st = "pending"
  /\ IF p0[i].st = "fulfilled"
     THEN LET hr == thenCallback(p0[i].v, capturedRes(i), i, func[i].f)
          IN /\ resLog' = [resLog EXCEPT ![capturedRes(i)] = @ \o hr.calls]
             /\ p1' = [p1 EXCEPT ![i] = IF hr.raised THEN Rejected(WriteErr)
                                        ELSE Fulfilled(Undefined)]
     ELSE /\ p1' = [p1 EXCEPT ![i] = Rejected(p0[i].v)]
          /\ UNCHANGED resLog
  /\ UNCHANGED <<pc, func, p0, p2, nextLog, thenable, nameVars, errVars,
                 proxyVars, tableVars>>

\* the reaction job of .catch(next)
catchReaction(i) ==
  /\ p1[i].st \in {"fulfilled", "rejected"}
  /\ p2[i].st = "pending"
  /\ IF p1[i].st = "rejected"
     THEN nextLog' = [nextLog EXCEPT ![capturedNext(i)] =
                        @ \o catchCallback(i, p1[i].v)]
     ELSE UNCHANGED nextLog
  /\ p2' = [p2 EXCEPT ![i] = Fulfilled(Undefined)]
  /\ UNCHANGED <<pc, func, p0, p1, resLog, thenable, nameVars, errVars,
                 proxyVars, tableVars>>

NoFunc == [kind |-> "none", v |-> Undefined, f |-> "none"]

Init ==
  /\ pc = [i \in Invs |-> "idle"]
  /\ func = [i \in Invs |-> NoFunc]
  /\ p0 = [i \in Invs |-> NoPromise]
  /\ p1 = [i \in Invs |-> NoPromise]
  /\ p2 = [i \in Invs |-> NoPromise]
  /\ resLog = [r \in Invs |-> <<>>]
  /\ nextLog = [k \in Invs |-> <<>>]
  /\ thenable = [i \in Invs |-> NoPromise]
  /\ statusArg = 500
  /\ errName = <<>>
  /\ ErrIdle
  /\ ProxyIdle
  /\ TableIdle

\* one invocation, every kind of value
Next ==
  \/ handler(1, Values, UserActs, FailPoints)
  \/ settle(1, Values, UserActs)
  \/ thenableSettles(1, Values)
  \/ thenReaction(1)
  \/ catchReaction(1)

Spec == Init /\ [][Next]_vars

\* the event loop runs every reaction job that is ready
SpecFair ==
  Init /\ [][Next]_vars /\ WF_vars(thenReaction(1)) /\ WF_vars(catchReaction(1))

\* interleaved invocations of the same wrapped handler
NextConc ==
  \/ \E i \in Invs : handler(i, SmallValues, SmallUserActs, SmallFailPoints)
  \/ \E i \in Invs : settle(i, SmallValues, SmallUserActs)
  \/ \E i \in Invs : thenReaction(i)
  \/ \E i \in Invs : catchReaction(i)

SpecConc == Init /\ [][NextConc]_vars

(***************************************************************************)
(* Observations on one invocation.                                         *)
(***************************************************************************)
\* the calls the wrapper made for invocation i on response object r
WResOn(i, r) == SelectSeq(resLog[r], LAMBDA e : e.by = "wrapper" /\ e.inv = i)
\* the calls the wrapper made for invocation i on its own response object
WRes(i) == WResOn(i, resArg(i))
\* the calls the wrapper made for invocation i on the next function k
WNextOn(i, k) == SelectSeq(nextLog[k], LAMBDA e : e.by = "wrapper" /\ e.inv = i)
WNext(i) == WNextOn(i, nextArg(i))
\* the wrapper touched no response object for invocation i
NoResCalls(i) == \A r \in Invs : WResOn(i, r) = <<>>
\* the wrapper called no next function for invocation i
NoNextCalls(i) == \A k \in Invs : WNextOn(i, k) = <<>>
\* a body reached some response object through the wrapper
Written(i) ==
  \E r \in Invs : \E j \in 1..Len(WResOn(i, r)) :
    WResOn(i, r)[j].op \in {"json", "send"} /\ WResOn(i, r)[j].ok
\* the number of bodies the wrapper wrote for invocation i
WriteCount(i) ==
  Len(SelectSeq(WRes(i), LAMBDA e : e.op \in {"json", "send"} /\ e.ok))
Forwarded(i) == ~NoNextCalls(i)
\* nothing is left to run for invocation i
Done(i) ==
  /\ pc[i] = "returned"
  /\ p0[i].st = "none" \/ p2[i].st = "fulfilled"
\* handleResult has run on the returned or resolved value
ValueHandled(i) ==
  \/ func[i].kind = "return"
  \/ func[i].kind = "promise" /\ p0[i].st = "fulfilled" /\ p1[i].st /= "pending"
\* the returned or resolved value
RetVal(i) == IF func[i].kind = "return" THEN func[i].v ELSE p0[i].v
NextCallOf(i, arg) == Call("wrapper", i, "next", arg, TRUE)

\* C1: in every state of every invocation the wrapper has not both written
\* a response body and called next; it writes at most one body and calls
\* next at most once, so a finished invocation has exactly one of the three
\* outcomes written / forwarded / no-op.
C1_SingleOutcome ==
  \A i \in Invs :
    /\ ~(Written(i) /\ Forwarded(i))
    /\ WriteCount(i) <= 1
    /\ Len(WNext(i)) <= 1

\* an asynchronous invocation that ended with a written response
C1_Witness ==
  Done(1) /\ func[1].kind = "promise" /\ Written(1) /\ ~Forwarded(1)

\* C2: when the user function throws synchronously the wrapper calls next
\* exactly once with the thrown value, whatever it is, and makes no call on
\* any response object.
C2_SyncThrowForwarded ==
  \A i \in Invs :
    func[i].kind = "throw" =>
      /\ WNext(i) = <<NextCallOf(i, func[i].v)>>
      /\ \A k \in Invs \ {nextArg(i)} : WNextOn(i, k) = <<>>
      /\ NoResCalls(i)

\* a falsy value was thrown and forwarded
C2_Witness ==
  /\ func[1].kind = "throw"
  /\ func[1].v = Undefined
  /\ WNext(1) = <<NextCallOf(1, Undefined)>>

\* C3: when the promise returned by the user function rejects, the wrapper
\* calls next with the rejection reason, not before the rejection and exactly
\* once when its reactions have run, and makes no call on any response object.
C3_RejectionForwarded ==
  \A i \in Invs :
    func[i].kind = "promise" =>
      /\ p0[i].st = "pending" => NoNextCalls(i)
      /\ p0[i].st = "rejected" =>
           /\ NoResCalls(i)
           /\ WNext(i) \in {<<>>, <<NextCallOf(i, p0[i].v)>>}
           /\ \A k \in Invs \ {nextArg(i)} : WNextOn(i, k) = <<>>
           /\ Done(i) => WNext(i) = <<NextCallOf(i, p0[i].v)>>

\* a rejection has been forwarded
C3_Witness ==
  /\ Done(1)
  /\ p0[1].st = "rejected"
  /\ p0[1].v = Err(1)
  /\ WNext(1) = <<NextCallOf(1, Err(1))>>

\* a value seen from invocation i: its own response object is "the response"
RelVal(v, i) == IF v = ResObj(resArg(i)) THEN Val("res", 0) ELSE v
\* a call without the invocation that made it
RelCall(e, i) == [op |-> e.op, arg |-> RelVal(e.arg, i), ok |-> e.ok]
\* everything the wrapper did for invocation i
Effects(i) ==
  [res |-> [j \in 1..Len(WRes(i)) |-> RelCall(WRes(i)[j], i)],
   next |-> [j \in 1..Len(WNext(i)) |-> RelCall(WNext(i)[j], i)],
   elsewhere |-> \E r \in Invs \ {resArg(i)} : WResOn(i, r) /= <<>>]
\* invocation i returned synchronously the value invocation j resolved to,
\* with response objects that behave alike
SyncAsyncPair(i, j) ==
  /\ Done(i) /\ func[i].kind = "return"
  /\ Done(j) /\ func[j].kind = "promise" /\ p0[j].st = "fulfilled"
  /\ RelVal(func[i].v, i) = RelVal(p0[j].v, j)
  /\ func[i].f = func[j].f

\* C4: an invocation that returned V synchronously and an invocation whose
\* promise resolved to V made the same calls with the same arguments on
\* their response objects (and on next, when the response object raised).
C4_SyncAsyncSame ==
  \A i, j \in Invs : SyncAsyncPair(i, j) => Effects(i) = Effects(j)

\* a synchronous and an asynchronous structured write of the same value
C4_Witness ==
  /\ SyncAsyncPair(1, 2)
  /\ func[1].v = ApiRes(201)
  /\ Len(WRes(2)) = 2

\* the value has a status and a toJson member
hasApiResCapability(v) == v.k \in {"ApiRes", "duck"}
\* the wrapper passed some value to send
SendCalled(i) == \E j \in 1..Len(WRes(i)) : WRes(i)[j].op = "send"
\* the wrapper called status(V.status) and then json(V.toJson())
StructuredCalls(i, v) ==
  /\ Len(WRes(i)) >= 1
  /\ WRes(i)[1].op = "status" /\ WRes(i)[1].arg = Num(v.n)
  /\ WRes(i)[1].ok =>
       /\ Len(WRes(i)) = 2
       /\ WRes(i)[2].op = "json" /\ WRes(i)[2].arg = toJson(v)
  /\ ~WRes(i)[1].ok => Len(WRes(i)) = 1

\* C5 as stated: every returned or resolved value that exposes a status and
\* a toJson method is written with status(V.status) and json(V.toJson()) and
\* is not passed to send.
C5_Original ==
  \A i \in Invs :
    ValueHandled(i) /\ hasApiResCapability(RetVal(i)) =>
      StructuredCalls(i, RetVal(i)) /\ ~SendCalled(i)

\* C5: every returned or resolved value that is an instance of ApiRes makes
\* the wrapper call status(V.status) and then json(V.toJson()) and is never
\* passed to send; a value that only has a status and a toJson member is
\* passed to send as it is.
C5_ApiResInstance ==
  \A i \in Invs :
    ValueHandled(i) =>
      /\ isApiRes(RetVal(i)) =>
           StructuredCalls(i, RetVal(i)) /\ ~SendCalled(i)
      /\ RetVal(i).k = "duck" =>
           /\ Len(WRes(i)) = 1
           /\ WRes(i)[1].op = "send" /\ WRes(i)[1].arg = RetVal(i)

\* a resolved ApiRes instance has been written with its status and body
C5_Witness ==
  /\ func[1].kind = "promise" /\ ValueHandled(1)
  /\ RetVal(1) = ApiRes(201)
  /\ WRes(1) = <<Call("wrapper", 1, "status", Num(201), TRUE),
                 Call("wrapper", 1, "json", toJson(ApiRes(201)), TRUE)>>

\* the value is sent as it is
RawValue(i) ==
  /\ ValueHandled(i)
  /\ ~isApiRes(RetVal(i))
  /\ ToBoolean(RetVal(i))
  /\ RetVal(i) /= ResObj(resArg(i))
\* exactly one call, send(V), was made on the response object
SentOnce(i) ==
  /\ Len(WRes(i)) = 1
  /\ WRes(i)[1].op = "send" /\ WRes(i)[1].arg = RetVal(i)
  /\ \A r \in Invs \ {resArg(i)} : WResOn(i, r) = <<>>

\* C6 as stated: a truthy value that is neither an ApiRes nor the response
\* object is passed to send exactly once, no status is set, and next is not
\* called.
C6_Original ==
  \A i \in Invs : RawValue(i) => SentOnce(i) /\ NoNextCalls(i)

\* C6: a truthy value that is neither an ApiRes nor the response object is
\* passed to send exactly once and unchanged, and no status is set; next is
\* not called unless send itself raises, and then the raised error is passed
\* to next once.
C6_RawSend ==
  \A i \in Invs :
    RawValue(i) =>
      /\ SentOnce(i)
      /\ WRes(i)[1].ok => NoNextCalls(i)
      /\ ~WRes(i)[1].ok =>
           /\ WNext(i) \in {<<>>, <<NextCallOf(i, WriteErr)>>}
           /\ Done(i) => WNext(i) = <<NextCallOf(i, WriteErr)>>

\* a plain object has been returned and sent
C6_Witness ==
  /\ func[1].kind = "return" /\ func[1].v = Obj(1)
  /\ WRes(1) = <<Call("wrapper", 1, "send", Obj(1), TRUE)>>
  /\ NoNextCalls(1)

\* the calls the user function itself made
UserRes(i) == SelectSeq(resLog[resArg(i)], LAMBDA e : e.by = "user")
UserNext(i) == SelectSeq(nextLog[nextArg(i)], LAMBDA e : e.by = "user")

\* C7: when the user function returns or resolves to a falsy value or to the
\* response object itself, the wrapper makes no call on any response object
\* and no call on next, also when the user function already responded or
\* called next itself.
C7_FalsyOrResNoop ==
  \A i \in Invs :
    /\ ValueHandled(i)
    /\ RetVal(i) \in FalsyValues \/ RetVal(i) = ResObj(resArg(i))
    => NoResCalls(i) /\ NoNextCalls(i)

\* the user function responded by itself and returned the response object
C7_Witness ==
  /\ Done(1) /\ ValueHandled(1)
  /\ RetVal(1) = ResObj(resArg(1))
  /\ UserRes(1) /= <<>>
  /\ resLog[resArg(1)] = UserRes(1)

\* C8: while the promise returned by the user function is unsettled the
\* wrapper has made no call on any response object and no call on next.
C8_PendingSilent ==
  \A i \in Invs :
    func[i].kind = "promise" /\ p0[i].st = "pending" =>
      NoResCalls(i) /\ NoNextCalls(i)

\* the wrapped handler has returned and its promise is unsettled
C8_Witness ==
  pc[1] = "returned" /\ func[1].kind = "promise" /\ p0[1].st = "pending"

\* the argument a call of invocation i may carry, given what its user
\* function returned, resolved to, threw or rejected with
OwnResArg(e, i) ==
  /\ ValueHandled(i)
  /\ \/ e.op = "send" /\ e.arg = RetVal(i)
     \/ e.op = "status" /\ e.arg = Num(RetVal(i).n)
     \/ e.op = "json" /\ e.arg = toJson(RetVal(i))
OwnNextArg(e, i) ==
  \/ func[i].kind = "throw" /\ e.arg = func[i].v
  \/ func[i].kind = "promise" /\ p0[i].st = "rejected" /\ e.arg = p0[i].v
  \/ ValueHandled(i) /\ func[i].f /= "none" /\ e.arg = WriteErr

\* C9: with interleaved invocations, every call on a response object was
\* made by the invocation that owns it and carries that invocation's own
\* value, and every call on a next function was made by its own invocation
\* with that invocation's own error, whatever the order of settlement.
C9_InvocationsIndependent ==
  /\ \A r \in Invs : \A j \in 1..Len(resLog[r]) :
       /\ resArg(resLog[r][j].inv) = r
       /\ OwnResArg(resLog[r][j], resLog[r][j].inv)
  /\ \A k \in Invs : \A j \in 1..Len(nextLog[k]) :
       /\ nextArg(nextLog[k][j].inv) = k
       /\ OwnNextArg(nextLog[k][j], nextLog[k][j].inv)

\* the second invocation resolved and was written while the first, which
\* started before that, is still waiting for its promise
C9_Witness ==
  /\ pc[1] = "returned" /\ func[1].kind = "promise" /\ p0[1].st = "pending"
  /\ Done(2) /\ func[2].kind = "promise"
  /\ RetVal(2) = ApiRes(201) /\ Len(WRes(2)) = 2
  /\ resLog[resArg(1)] = <<>>

(***************************************************************************)
(* Status names.  A string is a sequence of one-character strings.         *)
(***************************************************************************)
UpperChars == <<"A", "B", "C", "D", "E", "F", "G", "H", "I", "J", "K", "L", "M",
                "N", "O", "P", "Q", "R", "S", "T", "U", "V", "W", "X", "Y", "Z">>
LowerChars == <<"a", "b", "c", "d", "e", "f", "g", "h", "i", "j", "k", "l", "m",
                "n", "o", "p", "q", "r", "s", "t", "u", "v", "w", "x", "y", "z">>
DigitChars == <<"0", "1", "2", "3", "4", "5", "6", "7", "8", "9">>

IndexOf(ch, s) ==
  IF \E j \in 1..Len(s) : s[j] = ch
  THEN CHOOSE j \in 1..Len(s) : s[j] = ch
  ELSE 0

toLowerCaseChar(ch) ==
  LET j == IndexOf(ch, UpperChars) IN IF j > 0 THEN LowerChars[j] ELSE ch
toUpperCaseChar(ch) ==
  LET j == IndexOf(ch, LowerChars) IN IF j > 0 THEN UpperChars[j] ELSE ch

\* \w of a regular expression
isWordChar(ch) ==
  \/ IndexOf(ch, UpperChars) > 0
  \/ IndexOf(ch, LowerChars) > 0
  \/ IndexOf(ch, DigitChars) > 0
  \/ ch = "_"

\* .toLowerCase()
toLowerCase(s) == [j \in 1..Len(s) |-> toLowerCaseChar(s[j])]
\* .replace(/_/g, ' ')
replaceUnderscores(s) == [j \in 1..Len(s) |-> IF s[j] = "_" THEN " " ELSE s[j]]
\* .replace(/\b\w/g, char => char.toUpperCase())
capitalizeWords(s) ==
  [j \in 1..Len(s) |->
     IF isWordChar(s[j]) /\ (j = 1 \/ ~isWordChar(s[j - 1]))
     THEN toUpperCaseChar(s[j])
     ELSE s[j]]
\* .replace(/\s+/g, '')
IsNotSpace(ch) == ch /= " "
removeWhitespace(s) == SelectSeq(s, IsNotSpace)
\* name.endsWith(suffix)
endsWith(s, suffix) ==
  /\ Len(s) >= Len(suffix)
  /\ SubSeq(s, Len(s) - Len(suffix) + 1, Len(s)) = suffix

HttpErrorName == <<"H", "t", "t", "p", "E", "r", "r", "o", "r">>
ErrorSuffix == <<"E", "r", "r", "o", "r">>

\* HttpStatus[`${c}_NAME`]; <<>> stands for a missing key
HttpStatus_NAME(c) ==
  CASE c = 100 -> <<"C", "O", "N", "T", "I", "N", "U", "E">>
    [] c = 101 -> <<"S", "W", "I", "T", "C", "H", "I", "N", "G", "_", "P", "R", "O", "T", "O", "C", "O", "L", "S">>
    [] c = 102 -> <<"P", "R", "O", "C", "E", "S", "S", "I", "N", "G">>
    [] c = 103 -> <<"E", "A", "R", "L", "Y", "_", "H", "I", "N", "T", "S">>
    [] c = 200 -> <<"O", "K">>
    [] c = 201 -> <<"C", "R", "E", "A", "T", "E", "D">>
    [] c = 202 -> <<"A", "C", "C", "E", "P", "T", "E", "D">>
    [] c = 203 -> <<"N", "O", "N", "_", "A", "U", "T", "H", "O", "R", "I", "T", "A", "T", "I", "V", "E", "_", "I", "N", "F", "O", "R", "M", "A", "T", "I", "O", "N">>
    [] c = 204 -> <<"N", "O", "_", "C", "O", "N", "T", "E", "N", "T">>
    [] c = 205 -> <<"R", "E", "S", "E", "T", "_", "C", "O", "N", "T", "E", "N", "T">>
    [] c = 206 -> <<"P", "A", "R", "T", "I", "A", "L", "_", "C", "O", "N", "T", "E", "N", "T">>
    [] c = 300 -> <<"A", "M", "B", "I", "G", "U", "O", "U", "S">>
    [] c = 301 -> <<"M", "O", "V", "E", "D", "_", "P", "E", "R", "M", "A", "N", "E", "N", "T", "L", "Y">>
    [] c = 302 -> <<"F", "O", "U", "N", "D">>
    [] c = 303 -> <<"S", "E", "E", "_", "O", "T", "H", "E", "R">>
    [] c = 304 -> <<"N", "O", "T", "_", "M", "O", "D", "I", "F", "I", "E", "D">>
    [] c = 307 -> <<"T", "E", "M", "P", "O", "R", "A", "R", "Y", "_", "R", "E", "D", "I", "R", "E", "C", "T">>
    [] c = 308 -> <<"P", "E", "R", "M", "A", "N", "E", "N", "T", "_", "R", "E", "D", "I", "R", "E", "C", "T">>
    [] c = 400 -> <<"B", "A", "D", "_", "R", "E", "Q", "U", "E", "S", "T">>
    [] c = 401 -> <<"U", "N", "A", "U", "T", "H", "O", "R", "I", "Z", "E", "D">>
    [] c = 402 -> <<"P", "A", "Y", "M", "E", "N", "T", "_", "R", "E", "Q", "U", "I", "R", "E", "D">>
    [] c = 403 -> <<"F", "O", "R", "B", "I", "D", "D", "E", "N">>
    [] c = 404 -> <<"N", "O", "T", "_", "F", "O", "U", "N", "D">>
    [] c = 405 -> <<"M", "E", "T", "H", "O", "D", "_", "N", "O", "T", "_", "A", "L", "L", "O", "W", "E", "D">>
    [] c = 406 -> <<"N", "O", "T", "_", "A", "C", "C", "E", "P", "T", "A", "B", "L", "E">>
    [] c = 407 -> <<"P", "R", "O", "X", "Y", "_", "A", "U", "T", "H", "E", "N", "T", "I", "C", "A", "T", "I", "O", "N", "_", "R", "E", "Q", "U", "I", "R", "E", "D">>
    [] c = 408 -> <<"R", "E", "Q", "U", "E", "S", "T", "_", "T", "I", "M", "E", "O", "U", "T">>
    [] c = 409 -> <<"C", "O", "N", "F", "L", "I", "C", "T">>
    [] c = 410 -> <<"G", "O", "N", "E">>
    [] c = 411 -> <<"L", "E", "N", "G", "T", "H", "_", "R", "E", "Q", "U", "I", "R", "E", "D">>
    [] c = 412 -> <<"P", "R", "E", "C", "O", "N", "D", "I", "T", "I", "O", "N", "_", "F", "A", "I", "L", "E", "D">>
    [] c = 413 -> <<"P", "A", "Y", "L", "O", "A", "D", "_", "T", "O", "O", "_", "L", "A", "R", "G", "E">>
    [] c = 414 -> <<"U", "R", "I", "_", "T", "O", "O", "_", "L", "O", "N", "G">>
    [] c = 415 -> <<"U", "N", "S", "U", "P", "P", "O", "R", "T", "E", "D", "_", "M", "E", "D", "I", "A", "_", "T", "Y", "P", "E">>
    [] c = 416 -> <<"R", "E", "Q", "U", "E", "S", "T", "E", "D", "_", "R", "A", "N", "G", "E", "_", "N", "O", "T", "_", "S", "A", "T", "I", "S", "F", "I", "A", "B", "L", "E">>
    [] c = 417 -> <<"E", "X", "P", "E", "C", "T", "A", "T", "I", "O", "N", "_", "F", "A", "I", "L", "E", "D">>
    [] c = 418 -> <<"I", "_", "A", "M", "_", "A", "_", "T", "E", "A", "P", "O", "T">>
    [] c = 421 -> <<"M", "I", "S", "D", "I", "R", "E", "C", "T", "E", "D">>
    [] c = 422 -> <<"U", "N", "P", "R", "O", "C", "E", "S", "S", "A", "B", "L", "E", "_", "E", "N", "T", "I", "T", "Y">>
    [] c = 424 -> <<"F", "A", "I", "L", "E", "D", "_", "D", "E", "P", "E", "N", "D", "E", "N", "C", "Y">>
    [] c = 428 -> <<"P", "R", "E", "C", "O", "N", "D", "I", "T", "I", "O", "N", "_", "R", "E", "Q", "U", "I", "R", "E", "D">>
    [] c = 429 -> <<"T", "O", "O", "_", "M", "A", "N", "Y", "_", "R", "E", "Q", "U", "E", "S", "T", "S">>
    [] c = 500 -> <<"I", "N", "T", "E", "R", "N", "A", "L", "_", "S", "E", "R", "V", "E", "R", "_", "E", "R", "R", "O", "R">>
    [] c = 501 -> <<"N", "O", "T", "_", "I", "M", "P", "L", "E", "M", "E", "N", "T", "E", "D">>
    [] c = 502 -> <<"B", "A", "D", "_", "G", "A", "T", "E", "W", "A", "Y">>
    [] c = 503 -> <<"S", "E", "R", "V", "I", "C", "E", "_", "U", "N", "A", "V", "A", "I", "L", "A", "B", "L", "E">>
    [] c = 504 -> <<"G", "A", "T", "E", "W", "A", "Y", "_", "T", "I", "M", "E", "O", "U", "T">>
    [] c = 505 -> <<"H", "T", "T", "P", "_", "V", "E", "R", "S", "I", "O", "N", "_", "N", "O", "T", "_", "S", "U", "P", "P", "O", "R", "T", "E", "D">>
    [] c = 506 -> <<"V", "A", "R", "I", "A", "N", "T", "_", "A", "L", "S", "O", "_", "N", "E", "G", "O", "T", "I", "A", "T", "E", "S">>
    [] c = 507 -> <<"I", "N", "S", "U", "F", "F", "I", "C", "I", "E", "N", "T", "_", "S", "T", "O", "R", "A", "G", "E">>
    [] c = 508 -> <<"L", "O", "O", "P", "_", "D", "E", "T", "E", "C", "T", "E", "D">>
    [] c = 509 -> <<"B", "A", "N", "D", "W", "I", "D", "T", "H", "_", "L", "I", "M", "I", "T", "_", "E", "X", "C", "E", "E", "D", "E", "D">>
    [] c = 510 -> <<"N", "O", "T", "_", "E", "X", "T", "E", "N", "D", "E", "D">>
    [] c = 511 -> <<"N", "E", "T", "W", "O", "R", "K", "_", "A", "U", "T", "H", "E", "N", "T", "I", "C", "A", "T", "I", "O", "N", "_", "R", "E", "Q", "U", "I", "R", "E", "D">>
    [] OTHER -> <<>>

\* getErrorName that appends the suffix without looking at the name
getErrorName_alwaysSuffix(status) ==
  IF status < 400 \/ status > 511
  THEN HttpErrorName
  ELSE LET statusKey == HttpStatus_NAME(status)
       IN IF statusKey = <<>>
          THEN HttpErrorName
          ELSE removeWhitespace(capitalizeWords(
                 replaceUnderscores(toLowerCase(statusKey)))) \o ErrorSuffix

getErrorName(status) ==
  IF status < 400 \/ status > 511
  THEN HttpErrorName
  ELSE LET statusKey == HttpStatus_NAME(status)
       IN IF statusKey = <<>>
          THEN HttpErrorName
          ELSE LET name == removeWhitespace(capitalizeWords(
                             replaceUnderscores(toLowerCase(statusKey))))
               IN IF endsWith(name, ErrorSuffix)
                  THEN name
                  ELSE name \o ErrorSuffix

\* getErrorName applied to one number
InitName ==
  /\ pc = [i \in Invs |-> "idle"]
  /\ func = [i \in Invs |-> NoFunc]
  /\ p0 = [i \in Invs |-> NoPromise]
  /\ p1 = [i \in Invs |-> NoPromise]
  /\ p2 = [i \in Invs |-> NoPromise]
  /\ resLog = [r \in Invs |-> <<>>]
  /\ nextLog = [k \in Invs |-> <<>>]
  /\ thenable = [i \in Invs |-> NoPromise]
  /\ statusArg \in MinStatus..MaxStatus
  /\ errName = <<>>
  /\ ErrIdle
  /\ ProxyIdle
  /\ TableIdle

callGetErrorName ==
  /\ errName = <<>>
  /\ errName' = getErrorName(statusArg)
  /\ UNCHANGED <<statusArg, handlerVars, errVars, proxyVars, tableVars>>

NextName == callGetErrorName

SpecName == InitName /\ [][NextName]_vars

\* the codes that have a name entry and lie in the error range
RegisteredErrorCodes == {c \in 400..511 : HttpStatus_NAME(c) /= <<>>}
\* PascalCase of an upper-case name with underscores, read word by word:
\* the first letter of a word stays, the others are lowered
RECURSIVE PascalFrom(_, _)
PascalFrom(s, atWordStart) ==
  IF s = <<>> THEN <<>>
  ELSE IF Head(s) = "_" THEN PascalFrom(Tail(s), TRUE)
  ELSE <<IF atWordStart THEN Head(s) ELSE toLowerCaseChar(Head(s))>>
         \o PascalFrom(Tail(s), FALSE)
PascalCase(s) == PascalFrom(s, TRUE)
WithErrorSuffix(s) ==
  IF Len(s) >= 5 /\ SubSeq(s, Len(s) - 4, Len(s)) = <<"E", "r", "r", "o", "r">>
  THEN s
  ELSE s \o <<"E", "r", "r", "o", "r">>
NotFoundErrorName ==
  <<"N", "o", "t", "F", "o", "u", "n", "d", "E", "r", "r", "o", "r">>
InternalServerErrorName ==
  <<"I", "n", "t", "e", "r", "n", "a", "l", "S", "e", "r", "v", "e", "r",
    "E", "r", "r", "o", "r">>

\* C10: for a registered code between 400 and 511 getErrorName returns the
\* registered name in PascalCase, with Error appended only when it does not
\* already end in Error (404 NotFoundError, 500 InternalServerError); for
\* every other number it returns HttpError.
C10_NameForStatus ==
  errName /= <<>> =>
    /\ statusArg \in RegisteredErrorCodes =>
         errName = WithErrorSuffix(PascalCase(HttpStatus_NAME(statusArg)))
    /\ statusArg \notin RegisteredErrorCodes => errName = HttpErrorName
    /\ statusArg = 404 => errName = NotFoundErrorName
    /\ statusArg = 500 => errName = InternalServerErrorName
    /\ statusArg \in {399, 419, 512} => errName = HttpErrorName

\* the name of a registered code that already ends in Error was derived
C10_Witness == statusArg = 500 /\ errName = InternalServerErrorName

(***************************************************************************)
(* The error model: HttpError, its specializations, toJson, isHttpError,   *)
(* and the error middleware returned by globalErrorHandler.                *)
(***************************************************************************)
\* HttpStatus[key] for a symbolic key; 0 stands for a missing key
HttpStatus(key) ==
  CASE key = "CONTINUE" -> 100
    [] key = "SWITCHING_PROTOCOLS" -> 101
    [] key = "PROCESSING" -> 102
    [] key = "EARLYHINTS" -> 103
    [] key = "OK" -> 200
    [] key = "CREATED" -> 201
    [] key = "ACCEPTED" -> 202
    [] key = "NON_AUTHORITATIVE_INFORMATION" -> 203
    [] key = "NO_CONTENT" -> 204
    [] key = "RESET_CONTENT" -> 205
    [] key = "PARTIAL_CONTENT" -> 206
    [] key = "AMBIGUOUS" -> 300
    [] key = "MOVED_PERMANENTLY" -> 301
    [] key = "FOUND" -> 302
    [] key = "SEE_OTHER" -> 303
    [] key = "NOT_MODIFIED" -> 304
    [] key = "TEMPORARY_REDIRECT" -> 307
    [] key = "PERMANENT_REDIRECT" -> 308
    [] key = "BAD_REQUEST" -> 400
    [] key = "UNAUTHORIZED" -> 401
    [] key = "PAYMENT_REQUIRED" -> 402
    [] key = "FORBIDDEN" -> 403
    [] key = "NOT_FOUND" -> 404
    [] key = "METHOD_NOT_ALLOWED" -> 405
    [] key = "NOT_ACCEPTABLE" -> 406
    [] key = "PROXY_AUTHENTICATION_REQUIRED" -> 407
    [] key = "REQUEST_TIMEOUT" -> 408
    [] key = "CONFLICT" -> 409
    [] key = "GONE" -> 410
    [] key = "LENGTH_REQUIRED" -> 411
    [] key = "PRECONDITION_FAILED" -> 412
    [] key = "PAYLOAD_TOO_LARGE" -> 413
    [] key = "URI_TOO_LONG" -> 414
    [] key = "UNSUPPORTED_MEDIA_TYPE" -> 415
    [] key = "REQUESTED_RANGE_NOT_SATISFIABLE" -> 416
    [] key = "EXPECTATION_FAILED" -> 417
    [] key = "I_AM_A_TEAPOT" -> 418
    [] key = "MISDIRECTED" -> 421
    [] key = "UNPROCESSABLE_ENTITY" -> 422
    [] key = "FAILED_DEPENDENCY" -> 424
    [] key = "PRECONDITION_REQUIRED" -> 428
    [] key = "TOO_MANY_REQUESTS" -> 429
    [] key = "INTERNAL_SERVER_ERROR" -> 500
    [] key = "NOT_IMPLEMENTED" -> 501
    [] key = "BAD_GATEWAY" -> 502
    [] key = "SERVICE_UNAVAILABLE" -> 503
    [] key = "GATEWAY_TIMEOUT" -> 504
    [] key = "HTTP_VERSION_NOT_SUPPORTED" -> 505
    [] key = "VARIANT_ALSO_NEGOTIATES" -> 506
    [] key = "INSUFFICIENT_STORAGE" -> 507
    [] key = "LOOP_DETECTED" -> 508
    [] key = "BANDWIDTH_LIMIT_EXCEEDED" -> 509
    [] key = "NOT_EXTENDED" -> 510
    [] key = "NETWORK_AUTHENTICATION_REQUIRED" -> 511
    [] OTHER -> 0
\* a list of strings, as a message
List(id) == Val("list", id)
\* 'Something went wrong'
GenericMessage == Str(20)
\* the stack string Error.captureStackTrace leaves on a new error
CapturedStack == Str(64)

SpecializationClasses ==
  {"BadRequestError", "ConflictError", "ForbiddenError", "NotFoundError",
   "UnAuthorizedError", "NotImplementedError", "PaymentRequiredError",
   "InternalServerError"}
HttpErrorClasses == {"HttpError"} \cup SpecializationClasses

\* class X extends Y
Parent(cls) ==
  CASE cls \in SpecializationClasses -> "HttpError"
    [] cls = "HttpError" -> "Error"
    [] cls = "Error" -> "Object"
    [] OTHER -> "none"

\* value instanceof target, for a value of class cls
RECURSIVE InstanceOf(_, _)
InstanceOf(cls, target) ==
  \/ cls = target
  \/ Parent(cls) /= "none" /\ InstanceOf(Parent(cls), target)

\* a constructor that derives the name from a fixed status
HttpError_new_fixedName(cls, msg, status, detail) ==
  LET st == IF status = Undefined THEN Num(HttpStatus("INTERNAL_SERVER_ERROR"))
            ELSE status
  IN ErrValue(cls, st, msg, detail,
              getErrorName(HttpStatus("INTERNAL_SERVER_ERROR")),
              IF msg.k = "string" THEN msg ELSE Undefined,
              msg.k /= "string", CapturedStack)

\* a constructor that takes any message for the display message
HttpError_new_anyMessage(cls, msg, status, detail) ==
  LET st == IF status = Undefined THEN Num(HttpStatus("INTERNAL_SERVER_ERROR"))
            ELSE status
  IN ErrValue(cls, st, msg, detail, getErrorName(st.n), msg, FALSE,
              CapturedStack)

\* new HttpError(msg, status = HttpStatus.INTERNAL_SERVER_ERROR, detail), run
\* for an instance of class cls
HttpError_new(cls, msg, status, detail) ==
  LET st == IF status = Undefined THEN Num(HttpStatus("INTERNAL_SERVER_ERROR"))
            ELSE status
  IN ErrValue(cls, st, msg, detail, getErrorName(st.n),
              IF msg.k = "string" THEN msg ELSE Undefined,
              msg.k /= "string", CapturedStack)

\* a table in which ConflictError was copied from BadRequestError
statusKeyOf_conflictCopied(cls) ==
  CASE cls = "BadRequestError" -> "BAD_REQUEST"
    [] cls = "ConflictError" -> "BAD_REQUEST"
    [] cls = "ForbiddenError" -> "FORBIDDEN"
    [] cls = "NotFoundError" -> "NOT_FOUND"
    [] cls = "UnAuthorizedError" -> "UNAUTHORIZED"
    [] cls = "NotImplementedError" -> "NOT_IMPLEMENTED"
    [] cls = "PaymentRequiredError" -> "PAYMENT_REQUIRED"
    [] OTHER -> "INTERNAL_SERVER_ERROR"

\* the HttpStatus key each specialization passes to super(...)
statusKeyOf(cls) ==
  CASE cls = "BadRequestError" -> "BAD_REQUEST"
    [] cls = "ConflictError" -> "CONFLICT"
    [] cls = "ForbiddenError" -> "FORBIDDEN"
    [] cls = "NotFoundError" -> "NOT_FOUND"
    [] cls = "UnAuthorizedError" -> "UNAUTHORIZED"
    [] cls = "NotImplementedError" -> "NOT_IMPLEMENTED"
    [] cls = "PaymentRequiredError" -> "PAYMENT_REQUIRED"
    [] OTHER -> "INTERNAL_SERVER_ERROR"

\* constructor(message, detail) { super(message, HttpStatus.X, detail) }
newSpecialization(cls, message, detail) ==
  HttpError_new(cls, message, Num(HttpStatus(statusKeyOf(cls))), detail)

InternalServerError(message, detail) ==
  newSpecialization("InternalServerError", message, detail)

\* toJson that always carries a detail key
HttpError_toJson_alwaysDetail(e) ==
  Body(e.status, e.name, e.msg, TRUE, e.detail)

\* HttpError.toJson()
HttpError_toJson(e) ==
  IF ToBoolean(e.detail)
  THEN Body(e.status, e.name, e.msg, TRUE, e.detail)
  ELSE Body(e.status, e.name, e.msg, FALSE, Undefined)

\* isHttpError that looks for a status property
isHttpError_hasStatus(value) == value.status /= Undefined

\* HttpError.isHttpError(value): value instanceof HttpError
isHttpError(value) == InstanceOf(value.cls, "HttpError")

(***************************************************************************)
(* Values that are not HttpError instances.                                *)
(***************************************************************************)
\* new Error('boom')
PlainError ==
  ErrValue("Error", Undefined, Undefined, Undefined, <<"E", "r", "r", "o", "r">>,
           Str(4), FALSE, Str(48))
\* an Error that carries a status property of its own
ErrorWithStatus ==
  ErrValue("Error", Num(404), Undefined, Undefined, <<"E", "r", "r", "o", "r">>,
           Str(9), FALSE, Str(52))
\* a plain object with status, message and toJson members
LookAlike ==
  ErrValue("Object", Num(400), Undefined, Undefined, <<>>, Str(5), FALSE,
           Undefined)
\* a thrown string: reading its message or stack yields undefined
ThrownString ==
  ErrValue("string", Undefined, Undefined, Undefined, <<>>, Undefined, FALSE,
           Undefined)
ThrownNumber ==
  ErrValue("number", Undefined, Undefined, Undefined, <<>>, Undefined, FALSE,
           Undefined)
ThrownUndefined ==
  ErrValue("undefined", Undefined, Undefined, Undefined, <<>>, Undefined, FALSE,
           Undefined)
ThrownNull ==
  ErrValue("null", Undefined, Undefined, Undefined, <<>>, Undefined, FALSE,
           Undefined)
OtherValues ==
  {PlainError, ErrorWithStatus, LookAlike, ThrownString, ThrownNumber,
   ThrownUndefined, ThrownNull}

\* constructor inputs
Messages == {Str(7), Str(0), List(2), Undefined}
StatusArgs ==
  {Undefined, Num(200), Num(400), Num(401), Num(404), Num(418), Num(419),
   Num(500), Num(511), Num(512)}
Details == {Undefined, Null, Obj(1), Str(48), Str(0)}
OptionSets ==
  {NoOptions} \cup
  {Options(TRUE, d, w) : d \in {"true", "false", "unset"}, w \in BOOLEAN}

\* a destructuring in which isDev defaults to false
isDevOf_defaultsFalse(options) == options.isDev = "true"

\* const {isDev = true, write = undefined} = options
isDevOf(options) == options.isDev /= "false"
writeOf(options) == options.write

\* one call made by the error middleware
EhCall(op, status, body, err) ==
  [op |-> op, status |-> status, body |-> body, err |-> err]
\* write(err)
WriteCall(err) == EhCall("write", Undefined, NoBody, err)
\* res.status(code).json(body)
ResponseCalls(code, body) ==
  <<EhCall("status", code, NoBody, NoValue),
    EhCall("json", Undefined, body, NoValue)>>

\* an error middleware that logs every error, classified or not
errorMiddleware_logsAll(err, isDev, write) ==
  LET logged == IF write THEN <<WriteCall(err)>> ELSE <<>>
  IN IF isHttpError(err)
     THEN [calls |-> logged \o ResponseCalls(err.status, HttpError_toJson(err)),
           raised |-> FALSE]
     ELSE IF isDev /\ err.cls \in {"undefined", "null"}
          THEN [calls |-> logged, raised |-> TRUE]
          ELSE LET error == InternalServerError(
                              IF isDev THEN err.message ELSE GenericMessage,
                              IF isDev THEN err.stack ELSE Null)
               IN [calls |-> logged \o
                             ResponseCalls(error.status, HttpError_toJson(error)),
                   raised |-> FALSE]

\* an error middleware that shows the message whatever isDev is
errorMiddleware_leaksMessage(err, isDev, write) ==
  IF isHttpError(err)
  THEN [calls |-> ResponseCalls(err.status, HttpError_toJson(err)),
        raised |-> FALSE]
  ELSE LET logged == IF write THEN <<WriteCall(err)>> ELSE <<>>
       IN IF err.cls \in {"undefined", "null"}
          THEN [calls |-> logged, raised |-> TRUE]
          ELSE LET error == InternalServerError(
                              err.message, IF isDev THEN err.stack ELSE Null)
               IN [calls |-> logged \o
                             ResponseCalls(error.status, HttpError_toJson(error)),
                   raised |-> FALSE]

\* an error middleware that logs after it has responded
errorMiddleware_logsAfter(err, isDev, write) ==
  IF isHttpError(err)
  THEN [calls |-> ResponseCalls(err.status, HttpError_toJson(err)),
        raised |-> FALSE]
  ELSE LET logged == IF write THEN <<WriteCall(err)>> ELSE <<>>
       IN IF isDev /\ err.cls \in {"undefined", "null"}
          THEN [calls |-> logged, raised |-> TRUE]
          ELSE LET error == InternalServerError(
                              IF isDev THEN err.message ELSE GenericMessage,
                              IF isDev THEN err.stack ELSE Null)
               IN [calls |-> ResponseCalls(error.status, HttpError_toJson(error))
                             \o logged,
                   raised |-> FALSE]

\* (err, req, res, next) => { ... }: the calls it makes and whether it raised.
\* Reading err.message of undefined or null raises a TypeError.
errorMiddleware(err, isDev, write) ==
  IF isHttpError(err)
  THEN [calls |-> ResponseCalls(err.status, HttpError_toJson(err)),
        raised |-> FALSE]
  ELSE LET logged == IF write THEN <<WriteCall(err)>> ELSE <<>>
       IN IF isDev /\ err.cls \in {"undefined", "null"}
          THEN [calls |-> logged, raised |-> TRUE]
          ELSE LET error == InternalServerError(
                              IF isDev THEN err.message ELSE GenericMessage,
                              IF isDev THEN err.stack ELSE Null)
               IN [calls |-> logged \o
                             ResponseCalls(error.status, HttpError_toJson(error)),
                   raised |-> FALSE]

(***************************************************************************)
(* Actions of the error model.                                             *)
(***************************************************************************)
\* application code constructs an error
construct ==
  /\ subject = NoValue
  /\ \E msg \in Messages, detail \in Details :
       \/ \E status \in StatusArgs :
            /\ subject' = HttpError_new("HttpError", msg, status, detail)
            /\ ctorArgs' = [cls |-> "HttpError", msg |-> msg,
                            status |-> status, detail |-> detail]
       \/ \E cls \in SpecializationClasses :
            /\ subject' = newSpecialization(cls, msg, detail)
            /\ ctorArgs' = [cls |-> cls, msg |-> msg, status |-> Undefined,
                            detail |-> detail]
  /\ UNCHANGED <<wire, isHttp, ehOpts, ehCalls, ehRaised, handlerVars, nameVars,
                 proxyVars, tableVars>>

\* some other value is thrown or examined
otherValue ==
  /\ subject = NoValue
  /\ subject' \in OtherValues
  /\ UNCHANGED <<ctorArgs, wire, isHttp, ehOpts, ehCalls, ehRaised, handlerVars,
                 nameVars, proxyVars, tableVars>>

\* subject.toJson()
callToJson ==
  /\ subject.cls \in HttpErrorClasses
  /\ wire = NoBody
  /\ wire' = HttpError_toJson(subject)
  /\ UNCHANGED <<subject, ctorArgs, isHttp, ehOpts, ehCalls, ehRaised,
                 handlerVars, nameVars, proxyVars, tableVars>>

\* HttpError.isHttpError(subject)
callIsHttpError ==
  /\ subject /= NoValue
  /\ isHttp = "unset"
  /\ isHttp' = IF isHttpError(subject) THEN "true" ELSE "false"
  /\ UNCHANGED <<subject, ctorArgs, wire, ehOpts, ehCalls, ehRaised,
                 handlerVars, nameVars, proxyVars, tableVars>>

\* globalErrorHandler(options)(subject, req, res, next)
globalErrorHandler ==
  /\ subject /= NoValue
  /\ ehRaised = "unset"
  /\ \E options \in OptionSets :
       LET r == errorMiddleware(subject, isDevOf(options), writeOf(options))
       IN /\ ehOpts' = options
          /\ ehCalls' = r.calls
          /\ ehRaised' = IF r.raised THEN "true" ELSE "false"
  /\ UNCHANGED <<subject, ctorArgs, wire, isHttp, handlerVars, nameVars, proxyVars, tableVars>>

NextErr ==
  \/ construct
  \/ otherValue
  \/ callToJson
  \/ callIsHttpError
  \/ globalErrorHandler

SpecErr == Init /\ [][NextErr]_vars

(***************************************************************************)
(* Observations on the error model.                                        *)
(***************************************************************************)
\* subject was built by the HttpError constructor or by a specialization
Constructed == ctorArgs /= NoCtorArgs
\* the name the status table gives a code, read word by word
ExpectedName(c) ==
  IF c \in RegisteredErrorCodes
  THEN WithErrorSuffix(PascalCase(HttpStatus_NAME(c)))
  ELSE HttpErrorName
\* the status each specialization is documented to carry
FixedStatus(cls) ==
  CASE cls = "BadRequestError" -> 400
    [] cls = "UnAuthorizedError" -> 401
    [] cls = "PaymentRequiredError" -> 402
    [] cls = "ForbiddenError" -> 403
    [] cls = "NotFoundError" -> 404
    [] cls = "ConflictError" -> 409
    [] cls = "NotImplementedError" -> 501
    [] OTHER -> 500
\* the status the constructor call asked for
RequestedStatus ==
  IF ctorArgs.status /= Undefined THEN ctorArgs.status
  ELSE Num(FixedStatus(ctorArgs.cls))
\* the parts of the wire body that do not concern detail
WireHead ==
  /\ wire.status = RequestedStatus
  /\ wire.error = ExpectedName(RequestedStatus.n)
  /\ wire.message = ctorArgs.msg

\* C11 as stated: toJson returns the constructor's status, the name of that
\* status, the constructor's message unchanged, and a detail key exactly
\* when the constructor's detail was not null or undefined.
C11_Original ==
  Constructed /\ wire /= NoBody =>
    /\ WireHead
    /\ wire.hasDetail <=> ctorArgs.detail \notin {Null, Undefined}
    /\ wire.hasDetail => wire.detail = ctorArgs.detail

\* C11: toJson returns the constructor's status, the name of that status,
\* the constructor's message unchanged, and a detail key exactly when the
\* constructor's detail was truthy (then equal to it); a detail that is not
\* null but falsy, such as the empty string, is left out.
C11_WireBody ==
  Constructed /\ wire /= NoBody =>
    /\ WireHead
    /\ wire.hasDetail <=> ToBoolean(ctorArgs.detail)
    /\ wire.hasDetail => wire.detail = ctorArgs.detail
    /\ ~wire.hasDetail => wire.detail = Undefined

\* a list message and an object detail came back in the wire body
C11_Witness ==
  /\ Constructed /\ wire /= NoBody
  /\ ctorArgs.msg = List(2) /\ wire.message = List(2)
  /\ ctorArgs.detail = Obj(1) /\ wire.hasDetail

\* C12: isHttpError is true exactly for the values built by the HttpError
\* constructor or a specialization; it is false for a plain Error, for null,
\* undefined and primitives, and for an object that only has the members.
C12_IsHttpError ==
  isHttp /= "unset" =>
    /\ isHttp = "true" <=> Constructed
    /\ subject \in OtherValues => isHttp = "false"

\* a specialization was recognised
C12_Witness ==
  Constructed /\ ctorArgs.cls = "NotFoundError" /\ isHttp = "true"

\* C13: each specialization carries its fixed status and the message and
\* detail it was given; HttpError built without a status carries 500.
C13_Specializations ==
  Constructed =>
    /\ ctorArgs.cls \in SpecializationClasses =>
         /\ subject.status = Num(FixedStatus(ctorArgs.cls))
         /\ subject.msg = ctorArgs.msg
         /\ subject.detail = ctorArgs.detail
    /\ ctorArgs.cls = "HttpError" /\ ctorArgs.status = Undefined =>
         subject.status = Num(500)

\* a ConflictError with its message and detail
C13_Witness ==
  /\ ctorArgs.cls = "ConflictError"
  /\ subject.status = Num(409)
  /\ subject.msg = Str(7) /\ subject.detail = Obj(1)

UnauthorizedErrorName ==
  <<"U", "n", "a", "u", "t", "h", "o", "r", "i", "z", "e", "d",
    "E", "r", "r", "o", "r">>

\* C14: the name of every constructed error is the name of its status,
\* whatever its class, message and detail (an UnAuthorizedError is named
\* UnauthorizedError after 401).
C14_NameFromStatus ==
  Constructed =>
    /\ subject.name = ExpectedName(subject.status.n)
    /\ ctorArgs.cls = "UnAuthorizedError" => subject.name = UnauthorizedErrorName
    /\ ctorArgs.cls = "HttpError" /\ ctorArgs.status = Num(404) =>
         subject.name = NotFoundErrorName

\* an UnAuthorizedError named after its status
C14_Witness ==
  /\ ctorArgs.cls = "UnAuthorizedError"
  /\ subject.status = Num(401)
  /\ subject.name = UnauthorizedErrorName

\* the display message (Error.message) is the value v
DisplayIs(e, v) == ~e.messageIsName /\ e.message = v
\* the display message is the error's name
DisplayIsName(e) == e.messageIsName /\ e.message = Undefined

\* C15 as stated: a string message is the display message, and a list
\* message is the display message too.
C15_Original ==
  Constructed =>
    /\ ctorArgs.msg.k = "string" => DisplayIs(subject, ctorArgs.msg)
    /\ ctorArgs.msg.k = "list" => DisplayIs(subject, ctorArgs.msg)

\* C15: a string message is the display message; with a list of strings
\* the display message is the error's name, and the list itself is kept in
\* msg, from where toJson takes it.
C15_DisplayMessage ==
  Constructed =>
    /\ ctorArgs.msg.k = "string" => DisplayIs(subject, ctorArgs.msg)
    /\ ctorArgs.msg.k = "list" =>
         /\ DisplayIsName(subject)
         /\ subject.msg = ctorArgs.msg
         /\ wire /= NoBody => wire.message = ctorArgs.msg

\* an error built with a list shows its name and keeps the list
C15_Witness ==
  /\ Constructed /\ ctorArgs.msg = List(2)
  /\ DisplayIsName(subject)
  /\ wire /= NoBody /\ wire.message = List(2)

\* the error middleware has run
Handled == ehRaised /= "unset"
\* the calls of one kind the error middleware made
EhCallsOf(op) == SelectSeq(ehCalls, LAMBDA e : e.op = op)
\* the calls on the response object
EhResponse == SelectSeq(ehCalls, LAMBDA e : e.op \in {"status", "json"})
\* the options in force
EhIsDev == ehOpts.isDev /= "false"

\* C16: for an HttpError the error middleware calls status with the error's
\* status and json with the error's wire body, whatever isDev is, and does
\* not call the write callback.
C16_ClassifiedResponse ==
  Handled /\ Constructed =>
    /\ ehRaised = "false"
    /\ Len(ehCalls) = 2
    /\ ehCalls[1].op = "status" /\ ehCalls[1].status = subject.status
    /\ ehCalls[2].op = "json" /\ ehCalls[2].body = HttpError_toJson(subject)
    /\ ehCalls[2].body.status = RequestedStatus
    /\ ehCalls[2].body.message = ctorArgs.msg
    /\ EhCallsOf("write") = <<>>

\* a NotFoundError answered in production mode with a callback configured
C16_Witness ==
  /\ Handled /\ ctorArgs.cls = "NotFoundError"
  /\ ehOpts.isDev = "false" /\ ehOpts.write
  /\ Len(ehCalls) = 2 /\ ehCalls[1].status = Num(404)

\* the one response production mode gives to every unclassified failure
GenericResponse ==
  <<EhCall("status", Num(500), NoBody, NoValue),
    EhCall("json", Undefined,
           Body(Num(500), InternalServerErrorName, Str(20), FALSE, Undefined),
           NoValue)>>

\* C17: with isDev = false the response to a failure that is no HttpError
\* is the same for every failure: status 500 and the body {status: 500,
\* error: InternalServerError, message: Something went wrong}, no detail.
C17_ProductionResponseFixed ==
  Handled /\ ~Constructed /\ ~EhIsDev =>
    /\ ehRaised = "false"
    /\ EhResponse = GenericResponse

\* a plain Error with a message and a stack got the generic response
C17_Witness ==
  /\ Handled /\ subject = PlainError /\ ehOpts.isDev = "false"
  /\ EhResponse = GenericResponse

\* C18: every failure that is no HttpError is answered with status 500 and
\* a body that has a status, an error and a message; with isDev = true the
\* message is the failure's message and the detail its stack.
C18_UnclassifiedResponse ==
  Handled /\ ~Constructed =>
    /\ Len(EhResponse) = 2
    /\ EhResponse[1].status = Num(500)
    /\ EhResponse[2].body.status = Num(500)
    /\ EhResponse[2].body.error = InternalServerErrorName
    /\ EhResponse[2].body.message /= Undefined
    /\ EhIsDev =>
         /\ EhResponse[2].body.message = subject.message
         /\ EhResponse[2].body.detail = subject.stack

\* C19: for a failure that is no HttpError a configured write callback is
\* called exactly once, with the error value, before any call on the
\* response; it is never called for an HttpError; with no callback the
\* error middleware only calls the response.
C19_WriteCallback ==
  Handled =>
    /\ ~Constructed /\ ehOpts.write =>
         /\ EhCallsOf("write") = <<WriteCall(subject)>>
         /\ ehCalls[1] = WriteCall(subject)
    /\ Constructed => EhCallsOf("write") = <<>>
    /\ ~ehOpts.write => ehCalls = EhResponse

\* a plain Error was logged and then answered
C19_Witness ==
  /\ Handled /\ subject = PlainError /\ ehOpts.write
  /\ Len(ehCalls) = 3
  /\ ehCalls[1].op = "write" /\ ehCalls[2].op = "status" /\ ehCalls[3].op = "json"

\* C20: for every error value, every isDev setting, with or without a
\* callback, the error middleware does not raise and makes exactly one
\* response write, status then json, with the status code equal to the
\* status field of the body.
C20_AlwaysOneResponse ==
  Handled =>
    /\ ehRaised = "false"
    /\ Len(EhResponse) = 2
    /\ EhResponse[1].op = "status" /\ EhResponse[2].op = "json"
    /\ EhResponse[1].status = EhResponse[2].body.status

\* C21: when globalErrorHandler is created with no options, or with options
\* that leave isDev out, the error middleware makes the calls it makes with
\* isDev = true: a failure that is no HttpError is answered with its own
\* message and, when it has a stack, with the stack as detail.
C21_IsDevDefaultsTrue ==
  Handled /\ ehOpts.isDev = "unset" =>
    LET explicit == errorMiddleware(subject, TRUE, ehOpts.write)
    IN /\ ehCalls = explicit.calls
       /\ (ehRaised = "true") = explicit.raised
       /\ ~Constructed /\ ehRaised = "false" =>
            /\ EhResponse[2].body.message = subject.message
            /\ ToBoolean(subject.stack) =>
                 /\ EhResponse[2].body.hasDetail
                 /\ EhResponse[2].body.detail = subject.stack

\* a plain Error handled by globalErrorHandler() got its message and stack
C21_Witness ==
  /\ Handled /\ subject = PlainError /\ ehOpts = NoOptions
  /\ EhResponse[2].body.message = PlainError.message
  /\ EhResponse[2].body.detail = PlainError.stack

(***************************************************************************)
(* proxyWrapper: the view over a controller instance.  The Proxy has a get *)
(* trap and a set trap; every other operation on the view is the ordinary  *)
(* operation on the instance.                                              *)
(***************************************************************************)
\* what proxyWrapper is handed first: a class, or an instance built before
Firsts == {"class", "object"}
\* the arguments handed to proxyWrapper after the first
ArgLists == {<<>>, <<Str(11)>>}
\* what a method called through the view returns, throws or resolves to
ProxyValues == {Undefined, ApiRes(201), Str(12)}
\* the values assigned and defined through the view
SetValues == {Str(3), Function(2)}
DefineValues == {Str(3)}
\* new Error('Overriding methods and properties is not allowed.')
OverrideErr == Err(3)
\* the TypeError raised by reading a property of undefined
TypeErr == Err(4)

\* the prototype of the controller class: its methods
ControllerProto == [NoProps EXCEPT !["getData"] = Function(1)]
\* new ExampleController(...args): the own properties of the new instance
newController(args) ==
  [NoProps EXCEPT !["message"] = IF Len(args) >= 1 THEN args[1] ELSE Undefined,
                  !["count"] = Num(0)]
\* the own properties of a controller built before proxyWrapper is called
BuiltOwn == [NoProps EXCEPT !["message"] = Str(5), !["count"] = Num(0)]

\* a proxyWrapper that constructs whenever arguments are given
proxyWrapper_byArgs(first, args) ==
  IF args /= <<>>
  THEN Inst("constructed", first, args, newController(args), ControllerProto)
  ELSE Inst("wrapped", first, args, BuiltOwn, ControllerProto)

\* typeof clsOrInstance === 'function' ? new clsOrInstance(...args)
\*                                     : clsOrInstance
proxyWrapper(first, args) ==
  IF first = "class"
  THEN Inst("constructed", first, args, newController(args), ControllerProto)
  ELSE Inst("wrapped", first, args, BuiltOwn, ControllerProto)

\* Reflect.get(target, prop, receiver) for data properties
ReflectGet(t, prop) ==
  IF t.own[prop] /= Absent THEN t.own[prop]
  ELSE IF t.proto[prop] /= Absent THEN t.proto[prop]
  ELSE Undefined

\* a get trap that wraps the function without binding it
getTrap_unbound(t, prop) ==
  LET value == ReflectGet(t, prop)
  IN IF value.k = "function"
     THEN [value |-> value, wrapped |-> TRUE, this |-> "undefined"]
     ELSE [value |-> value, wrapped |-> FALSE, this |-> "none"]

\* a get trap that answers from the properties copied when the view was made
getTrap_snapshot(t, prop) ==
  LET value == ReflectGet([t EXCEPT !.own = t.atWrap], prop)
  IN IF value.k = "function"
     THEN [value |-> value, wrapped |-> TRUE, this |-> "target"]
     ELSE [value |-> value, wrapped |-> FALSE, this |-> "none"]

\* get(target, prop, receiver): a function comes back as
\* handler(value.bind(target)), anything else as it is
getTrap(t, prop) ==
  LET value == ReflectGet(t, prop)
  IN IF value.k = "function"
     THEN [value |-> value, wrapped |-> TRUE, this |-> "target"]
     ELSE [value |-> value, wrapped |-> FALSE, this |-> "none"]

\* a set trap that lets new names through
setTrap_newAllowed(t, prop, value) ==
  IF t.own[prop] = Absent /\ t.proto[prop] = Absent
  THEN [inst |-> [t EXCEPT !.own[prop] = value], raised |-> FALSE,
        value |-> value]
  ELSE [inst |-> t, raised |-> TRUE, value |-> OverrideErr]

\* set() { throw new Error('Overriding methods and properties is not allowed.') }
setTrap(t, prop, value) == [inst |-> t, raised |-> TRUE, value |-> OverrideErr]

\* delete view[prop]: the Proxy has no deleteProperty trap
ordinaryDelete(t, prop) ==
  [inst |-> [t EXCEPT !.own[prop] = Absent], raised |-> FALSE, value |-> True]

\* Object.defineProperty(view, prop, {value, writable: true, enumerable: true,
\* configurable: true}): the Proxy has no defineProperty trap
ordinaryDefine(t, prop, value) ==
  [inst |-> [t EXCEPT !.own[prop] = value], raised |-> FALSE,
   value |-> Undefined]

\* this.count + 1
increment(v) == IF v.k = "number" THEN Num(v.n + 1) ELSE NaN

\* the controller method run with the given `this`: it counts the call on
\* its instance and then does what out says; with no `this` the first
\* property read raises a TypeError
getData(t, this, out) ==
  IF this = "target"
  THEN [inst |-> [t EXCEPT !.own["count"] = increment(ReflectGet(t, "count"))],
        out |-> out]
  ELSE [inst |-> t, out |-> [kind |-> "throw", v |-> TypeErr]]

\* what the method may do once it runs
MethodOutcomes ==
  {[kind |-> "throw", v |-> v] : v \in ProxyValues} \cup
  {[kind |-> "return", v |-> v] : v \in ProxyValues} \cup
  {[kind |-> "promise", v |-> Undefined]}

\* proxyWrapper(clsOrInstance, ...args)
wrap ==
  /\ inst = NoInst
  /\ \E first \in Firsts, args \in ArgLists : inst' = proxyWrapper(first, args)
  /\ UNCHANGED <<viewOp, thisArg, handlerVars, nameVars, errVars, tableVars>>

\* view[prop]
viewGet(prop) ==
  /\ inst /= NoInst
  /\ LET g == getTrap(inst, prop)
     IN viewOp' = ViewOp("get", prop, g.value, g.wrapped, g.this, FALSE, FALSE)
  /\ UNCHANGED <<inst, thisArg, handlerVars, nameVars, errVars, tableVars>>

\* the framework calls the handler read from the view with (req, res, next)
viewCall ==
  /\ viewOp.op = "get" /\ viewOp.wrapped /\ viewOp.value = Function(1)
  /\ \E out \in MethodOutcomes :
       LET r == getData(inst, viewOp.this, out)
       IN /\ wrappedHandler(1, r.out, "none", "none")
          /\ inst' = r.inst
          /\ thisArg' = viewOp.this
          /\ viewOp' = ViewOp("call", viewOp.prop, Undefined, TRUE, viewOp.this,
                              FALSE, r.inst /= inst)
  /\ UNCHANGED <<nameVars, errVars, tableVars>>

\* view[prop] = value
viewSet(prop, value) ==
  /\ inst /= NoInst
  /\ LET r == setTrap(inst, prop, value)
     IN /\ inst' = r.inst
        /\ viewOp' = ViewOp("set", prop, r.value, FALSE, "none", r.raised,
                            r.inst /= inst)
  /\ UNCHANGED <<thisArg, handlerVars, nameVars, errVars, tableVars>>

\* delete view[prop]
viewDelete(prop) ==
  /\ inst /= NoInst
  /\ LET r == ordinaryDelete(inst, prop)
     IN /\ inst' = r.inst
        /\ viewOp' = ViewOp("delete", prop, r.value, FALSE, "none", r.raised,
                            r.inst /= inst)
  /\ UNCHANGED <<thisArg, handlerVars, nameVars, errVars, tableVars>>

\* Object.defineProperty(view, prop, {value, ...})
viewDefine(prop, value) ==
  /\ inst /= NoInst
  /\ LET r == ordinaryDefine(inst, prop, value)
     IN /\ inst' = r.inst
        /\ viewOp' = ViewOp("define", prop, r.value, FALSE, "none", r.raised,
                            r.inst /= inst)
  /\ UNCHANGED <<thisArg, handlerVars, nameVars, errVars, tableVars>>

NextProxy ==
  \/ wrap
  \/ \E prop \in PropNames : viewGet(prop)
  \/ viewCall
  \/ \E prop \in PropNames, value \in SetValues : viewSet(prop, value)
  \/ \E prop \in PropNames : viewDelete(prop)
  \/ \E prop \in PropNames, value \in DefineValues : viewDefine(prop, value)
  \/ settle(1, ProxyValues, SmallUserActs)
  \/ thenReaction(1)
  \/ catchReaction(1)

SpecProxy == Init /\ [][NextProxy]_vars

(***************************************************************************)
(* Observations on the view.                                               *)
(***************************************************************************)
\* the handler read from the view has been called
Called == pc[1] /= "idle"
\* the last operation through the view was of one of these kinds
LastOp(ops) == viewOp.op \in ops

\* C22: a function read through the view is a handler; called with
\* (req, res, next) it runs the original with the wrapped instance as `this`
\* and handles what the original does as the wrapper does: a thrown value
\* goes to next, an ApiRes is written with status and json, another truthy
\* value is sent, a falsy one makes no call, a rejection goes to next.
C22_MethodBoundAndRouted ==
  /\ LastOp({"get"}) /\ ReflectGet(inst, viewOp.prop).k = "function" =>
       viewOp.wrapped /\ viewOp.this = "target"
  /\ Called =>
       /\ thisArg = "target"
       /\ pc[1] = "returned"
       /\ func[1].kind = "throw" =>
            /\ func[1].v \in ProxyValues
            /\ NoResCalls(1)
            /\ WNext(1) = <<NextCallOf(1, func[1].v)>>
       /\ ValueHandled(1) =>
            /\ isApiRes(RetVal(1)) =>
                 /\ StructuredCalls(1, RetVal(1))
                 /\ Len(WRes(1)) = 2
                 /\ NoNextCalls(1)
            /\ RawValue(1) => SentOnce(1) /\ NoNextCalls(1)
            /\ RetVal(1) \in FalsyValues => NoResCalls(1) /\ NoNextCalls(1)
       /\ func[1].kind = "promise" /\ p0[1].st = "rejected" /\ Done(1) =>
            /\ NoResCalls(1)
            /\ WNext(1) = <<NextCallOf(1, p0[1].v)>>
  /\ LastOp({"call"}) => viewOp.changed

\* getData of a controller constructed with one argument was read through
\* the view and called; it ran on the instance and its ApiRes was written
C22_Witness ==
  /\ LastOp({"call"}) /\ viewOp.prop = "getData"
  /\ inst.made = "constructed" /\ inst.args = <<Str(11)>>
  /\ inst.own["message"] = Str(11) /\ inst.own["count"] = Num(1)
  /\ thisArg = "target"
  /\ func[1].kind = "return" /\ func[1].v = ApiRes(201)
  /\ WRes(1) = <<Call("wrapper", 1, "status", Num(201), TRUE),
                 Call("wrapper", 1, "json", toJson(ApiRes(201)), TRUE)>>

\* C23: every assignment through the view, to a method, to a property that
\* is no function or to a new name, raises the overriding-not-allowed error
\* and leaves every property of the instance as it was.
C23_AssignmentRejected ==
  LastOp({"set"}) =>
    /\ viewOp.raised
    /\ viewOp.value = OverrideErr
    /\ ~viewOp.changed

\* an assignment to a new name was rejected and the name is still absent
C23_Witness ==
  /\ LastOp({"set"}) /\ viewOp.prop = "extra"
  /\ viewOp.raised /\ viewOp.value = OverrideErr
  /\ inst.own["extra"] = Absent /\ inst.proto["extra"] = Absent

\* C24: every assignment, deletion and definition through the view is
\* rejected and changes neither the set of properties of the instance nor
\* any of their values.
C24_WriteProtected ==
  LastOp({"set", "delete", "define"}) =>
    /\ viewOp.raised
    /\ ~viewOp.changed

\* C25 as stated: with arguments after the first, proxyWrapper constructs an
\* instance with them; with none it wraps its first argument as it is.
C25_Original ==
  inst /= NoInst =>
    /\ inst.args /= <<>> =>
         /\ inst.made = "constructed"
         /\ inst.atWrap["message"] = inst.args[1]
    /\ inst.args = <<>> =>
         /\ inst.made = "wrapped"
         /\ inst.atWrap = BuiltOwn

\* C25: proxyWrapper constructs an instance, with the arguments after the
\* first however many they are, exactly when its first argument is a
\* function; a first argument that is no function is wrapped as it is and
\* the other arguments are not used.
C25_ByFirstArgument ==
  inst /= NoInst =>
    /\ inst.first = "class" =>
         /\ inst.made = "constructed"
         /\ inst.atWrap["message"] =
              IF inst.args /= <<>> THEN inst.args[1] ELSE Undefined
    /\ inst.first = "object" =>
         /\ inst.made = "wrapped"
         /\ inst.atWrap = BuiltOwn

\* a class handed over with no arguments was constructed
C25_Witness ==
  /\ inst.first = "class" /\ inst.args = <<>>
  /\ inst.made = "constructed"
  /\ inst.atWrap["message"] = Undefined

\* C26: a read through the view of a property that is no function yields
\* the value the instance has for it at that moment, as it is, also after a
\* method called through the view has changed it.
C26_ReadsCurrentValue ==
  LastOp({"get"}) /\ ~viewOp.wrapped =>
    /\ viewOp.value.k /= "function"
    /\ viewOp.value = IF inst.own[viewOp.prop] /= Absent
                      THEN inst.own[viewOp.prop]
                      ELSE Undefined

\* count was read through the view after the called method had raised it
C26_Witness ==
  /\ Called /\ LastOp({"get"}) /\ viewOp.prop = "count"
  /\ inst.atWrap["count"] = Num(0)
  /\ viewOp.value = Num(1) /\ ~viewOp.wrapped

(***************************************************************************)
(* Completion, failures and thenables.                                     *)
(***************************************************************************)
\* the promise returned by the user function has settled
Settled(i) == p0[i].st \in {"fulfilled", "rejected"}
\* the user function has returned or thrown, or its promise has settled
Completed(i) ==
  /\ pc[i] /= "idle"
  /\ func[i].kind = "promise" => Settled(i)
\* the wrapper has made some call for invocation i
Acted(i) == ~NoResCalls(i) \/ ~NoNextCalls(i)
\* a body was written with status and json
StructuredWritten(i) ==
  \E j \in 1..Len(WRes(i)) : WRes(i)[j].op = "json" /\ WRes(i)[j].ok
\* a value was sent as it is
RawSent(i) ==
  \E j \in 1..Len(WRes(i)) : WRes(i)[j].op = "send" /\ WRes(i)[j].ok
\* the terminal outcomes invocation i has
Outcomes(i) ==
  {o \in {"structured", "raw", "forward", "noop"} :
     \/ o = "structured" /\ StructuredWritten(i)
     \/ o = "raw" /\ RawSent(i)
     \/ o = "forward" /\ Forwarded(i)
     \/ o = "noop" /\ ~Written(i) /\ ~Forwarded(i)}

\* C27: when the reaction jobs that are ready are eventually run, every
\* invocation whose user function has returned or thrown or whose promise
\* has settled comes to an end with exactly one of the outcomes structured
\* write, raw send, no-op and forward, having written at most one body and
\* called next at most once; for a function that returned a promise the
\* wrapper makes no call before the promise has settled and the wrapped
\* handler has returned.
C27_EventuallyOneOutcome ==
  /\ \A i \in Invs :
       Completed(i) ~>
         /\ Done(i)
         /\ Cardinality(Outcomes(i)) = 1
         /\ WriteCount(i) + Len(WNext(i)) <= 1
  /\ [](\A i \in Invs :
          func[i].kind = "promise" /\ Acted(i) =>
            Settled(i) /\ pc[i] = "returned")

\* a rejected promise has been forwarded and nothing is left to run
C27_Witness ==
  /\ func[1].kind = "promise" /\ p0[1].st = "rejected" /\ Done(1)
  /\ Outcomes(1) = {"forward"}

\* a call on the response object raised
WriteRaised(i) == \E j \in 1..Len(WRes(i)) : ~WRes(i)[j].ok

\* C28: the wrapped handler never raises to its caller and its promise
\* chain never ends rejected; what the user function throws, what its
\* promise rejects with, and what status, json or send raises while the
\* wrapper writes, on the synchronous and on the asynchronous path, is
\* passed to next, once, and next is never called twice.
C28_FailuresForwardedOnce ==
  \A i \in Invs :
    /\ pc[i] /= "raised"
    /\ p2[i].st /= "rejected"
    /\ Len(WNext(i)) <= 1
    /\ func[i].kind = "throw" => WNext(i) = <<NextCallOf(i, func[i].v)>>
    /\ func[i].kind = "return" /\ WriteRaised(i) =>
         WNext(i) = <<NextCallOf(i, WriteErr)>>
    /\ func[i].kind = "promise" /\ Done(i) =>
         /\ p0[i].st = "rejected" => WNext(i) = <<NextCallOf(i, p0[i].v)>>
         /\ WriteRaised(i) => WNext(i) = <<NextCallOf(i, WriteErr)>>

\* json raised while a resolved ApiRes was written and the error went to next
C28_Witness ==
  /\ func[1].kind = "promise" /\ p0[1] = Fulfilled(ApiRes(201)) /\ Done(1)
  /\ WriteRaised(1) /\ pc[1] = "returned"
  /\ WNext(1) = <<NextCallOf(1, WriteErr)>>

\* the user function returned a thenable that is no Promise
ReturnedThenable(i) == func[i].kind = "return" /\ func[i].v.k = "thenable"

\* C29: a returned thenable that is no Promise instance is handled as a
\* value: no reaction is registered on it, it is passed to send once when
\* the user function returns, and whatever it later resolves to or rejects
\* with, the wrapper makes no further call; next is called only if send
\* itself raised, and then with that error.
C29_ThenableIsValue ==
  \A i \in Invs :
    ReturnedThenable(i) =>
      /\ p0[i] = NoPromise /\ p1[i] = NoPromise /\ p2[i] = NoPromise
      /\ thenable[i].st /= "none"
      /\ SentOnce(i)
      /\ WRes(i)[1].arg = func[i].v
      /\ WRes(i)[1].ok => NoNextCalls(i)
      /\ ~WRes(i)[1].ok => WNext(i) = <<NextCallOf(i, WriteErr)>>

\* the thenable was sent and later rejected; next was not called
C29_Witness ==
  /\ ReturnedThenable(1)
  /\ thenable[1] = Rejected(Err(1))
  /\ WRes(1) = <<Call("wrapper", 1, "send", Thenable(1), TRUE)>>
  /\ NoNextCalls(1)

(***************************************************************************)
(* The two versions of the HttpStatus table.  Version 1 keeps the name of  *)
(* code c under the key c_NAME, version 2 under NAMES.$c.                  *)
(***************************************************************************)
\* the keys of the numeric constants of version 1
HttpStatusKeys ==
  {"CONTINUE", "SWITCHING_PROTOCOLS", "PROCESSING", "EARLYHINTS", "OK",
   "CREATED", "ACCEPTED", "NON_AUTHORITATIVE_INFORMATION", "NO_CONTENT",
   "RESET_CONTENT", "PARTIAL_CONTENT", "AMBIGUOUS", "MOVED_PERMANENTLY",
   "FOUND", "SEE_OTHER", "NOT_MODIFIED", "TEMPORARY_REDIRECT",
   "PERMANENT_REDIRECT", "BAD_REQUEST", "UNAUTHORIZED", "PAYMENT_REQUIRED",
   "FORBIDDEN", "NOT_FOUND", "METHOD_NOT_ALLOWED", "NOT_ACCEPTABLE",
   "PROXY_AUTHENTICATION_REQUIRED", "REQUEST_TIMEOUT", "CONFLICT", "GONE",
   "LENGTH_REQUIRED", "PRECONDITION_FAILED", "PAYLOAD_TOO_LARGE",
   "URI_TOO_LONG", "UNSUPPORTED_MEDIA_TYPE",
   "REQUESTED_RANGE_NOT_SATISFIABLE", "EXPECTATION_FAILED", "I_AM_A_TEAPOT",
   "MISDIRECTED", "UNPROCESSABLE_ENTITY", "FAILED_DEPENDENCY",
   "PRECONDITION_REQUIRED", "TOO_MANY_REQUESTS", "INTERNAL_SERVER_ERROR",
   "NOT_IMPLEMENTED", "BAD_GATEWAY", "SERVICE_UNAVAILABLE",
   "GATEWAY_TIMEOUT", "HTTP_VERSION_NOT_SUPPORTED",
   "VARIANT_ALSO_NEGOTIATES", "INSUFFICIENT_STORAGE", "LOOP_DETECTED",
   "BANDWIDTH_LIMIT_EXCEEDED", "NOT_EXTENDED",
   "NETWORK_AUTHENTICATION_REQUIRED"}

\* version 2: HttpStatus[key] for the key of a constant; 0 stands for a
\* missing key
HttpStatus2(key) ==
  CASE key = "CONTINUE" -> 100
    [] key = "SWITCHING_PROTOCOLS" -> 101
    [] key = "PROCESSING" -> 102
    [] key = "EARLY_HINTS" -> 103
    [] key = "OK" -> 200
    [] key = "CREATED" -> 201
    [] key = "ACCEPTED" -> 202
    [] key = "NON_AUTHORITATIVE_INFORMATION" -> 203
    [] key = "NO_CONTENT" -> 204
    [] key = "RESET_CONTENT" -> 205
    [] key = "PARTIAL_CONTENT" -> 206
    [] key = "AMBIGUOUS" -> 300
    [] key = "MOVED_PERMANENTLY" -> 301
    [] key = "FOUND" -> 302
    [] key = "SEE_OTHER" -> 303
    [] key = "NOT_MODIFIED" -> 304
    [] key = "TEMPORARY_REDIRECT" -> 307
    [] key = "PERMANENT_REDIRECT" -> 308
    [] key = "BAD_REQUEST" -> 400
    [] key = "UNAUTHORIZED" -> 401
    [] key = "PAYMENT_REQUIRED" -> 402
    [] key = "FORBIDDEN" -> 403
    [] key = "NOT_FOUND" -> 404
    [] key = "METHOD_NOT_ALLOWED" -> 405
    [] key = "NOT_ACCEPTABLE" -> 406
    [] key = "PROXY_AUTHENTICATION_REQUIRED" -> 407
    [] key = "REQUEST_TIMEOUT" -> 408
    [] key = "CONFLICT" -> 409
    [] key = "GONE" -> 410
    [] key = "LENGTH_REQUIRED" -> 411
    [] key = "PRECONDITION_FAILED" -> 412
    [] key = "PAYLOAD_TOO_LARGE" -> 413
    [] key = "URI_TOO_LONG" -> 414
    [] key = "UNSUPPORTED_MEDIA_TYPE" -> 415
    [] key = "REQUESTED_RANGE_NOT_SATISFIABLE" -> 416
    [] key = "EXPECTATION_FAILED" -> 417
    [] key = "I_AM_A_TEAPOT" -> 418
    [] key = "MISDIRECTED_REQUEST" -> 421
    [] key = "UNPROCESSABLE_ENTITY" -> 422
    [] key = "FAILED_DEPENDENCY" -> 424
    [] key = "PRECONDITION_REQUIRED" -> 428
    [] key = "TOO_MANY_REQUESTS" -> 429
    [] key = "INTERNAL_SERVER_ERROR" -> 500
    [] key = "NOT_IMPLEMENTED" -> 501
    [] key = "BAD_GATEWAY" -> 502
    [] key = "SERVICE_UNAVAILABLE" -> 503
    [] key = "GATEWAY_TIMEOUT" -> 504
    [] key = "HTTP_VERSION_NOT_SUPPORTED" -> 505
    [] key = "VARIANT_ALSO_NEGOTIATES" -> 506
    [] key = "INSUFFICIENT_STORAGE" -> 507
    [] key = "LOOP_DETECTED" -> 508
    [] key = "BANDWIDTH_LIMIT_EXCEEDED" -> 509
    [] key = "NOT_EXTENDED" -> 510
    [] key = "NETWORK_AUTHENTICATION_REQUIRED" -> 511
    [] OTHER -> 0

\* version 2: HttpStatus.NAMES[`$${c}`]; "" stands for a missing key
HttpStatus2_NAMES(c) ==
  CASE c = 100 -> "CONTINUE"
    [] c = 101 -> "SWITCHING_PROTOCOLS"
    [] c = 102 -> "PROCESSING"
    [] c = 103 -> "EARLY_HINTS"
    [] c = 200 -> "OK"
    [] c = 201 -> "CREATED"
    [] c = 202 -> "ACCEPTED"
    [] c = 203 -> "NON_AUTHORITATIVE_INFORMATION"
    [] c = 204 -> "NO_CONTENT"
    [] c = 205 -> "RESET_CONTENT"
    [] c = 206 -> "PARTIAL_CONTENT"
    [] c = 300 -> "AMBIGUOUS"
    [] c = 301 -> "MOVED_PERMANENTLY"
    [] c = 302 -> "FOUND"
    [] c = 303 -> "SEE_OTHER"
    [] c = 304 -> "NOT_MODIFIED"
    [] c = 307 -> "TEMPORARY_REDIRECT"
    [] c = 308 -> "PERMANENT_REDIRECT"
    [] c = 400 -> "BAD_REQUEST"
    [] c = 401 -> "UNAUTHORIZED"
    [] c = 402 -> "PAYMENT_REQUIRED"
    [] c = 403 -> "FORBIDDEN"
    [] c = 404 -> "NOT_FOUND"
    [] c = 405 -> "METHOD_NOT_ALLOWED"
    [] c = 406 -> "NOT_ACCEPTABLE"
    [] c = 407 -> "PROXY_AUTHENTICATION_REQUIRED"
    [] c = 408 -> "REQUEST_TIMEOUT"
    [] c = 409 -> "CONFLICT"
    [] c = 410 -> "GONE"
    [] c = 411 -> "LENGTH_REQUIRED"
    [] c = 412 -> "PRECONDITION_FAILED"
    [] c = 413 -> "PAYLOAD_TOO_LARGE"
    [] c = 414 -> "URI_TOO_LONG"
    [] c = 415 -> "UNSUPPORTED_MEDIA_TYPE"
    [] c = 416 -> "REQUESTED_RANGE_NOT_SATISFIABLE"
    [] c = 417 -> "EXPECTATION_FAILED"
    [] c = 418 -> "I_AM_A_TEAPOT"
    [] c = 421 -> "MISDIRECTED_REQUEST"
    [] c = 422 -> "UNPROCESSABLE_ENTITY"
    [] c = 424 -> "FAILED_DEPENDENCY"
    [] c = 428 -> "PRECONDITION_REQUIRED"
    [] c = 429 -> "TOO_MANY_REQUESTS"
    [] c = 500 -> "INTERNAL_SERVER_ERROR"
    [] c = 501 -> "NOT_IMPLEMENTED"
    [] c = 502 -> "BAD_GATEWAY"
    [] c = 503 -> "SERVICE_UNAVAILABLE"
    [] c = 504 -> "GATEWAY_TIMEOUT"
    [] c = 505 -> "HTTP_VERSION_NOT_SUPPORTED"
    [] c = 506 -> "VARIANT_ALSO_NEGOTIATES"
    [] c = 507 -> "INSUFFICIENT_STORAGE"
    [] c = 508 -> "LOOP_DETECTED"
    [] c = 509 -> "BANDWIDTH_LIMIT_EXCEEDED"
    [] c = 510 -> "NOT_EXTENDED"
    [] c = 511 -> "NETWORK_AUTHENTICATION_REQUIRED"
    [] OTHER -> ""

\* the keys of the numeric constants of version 2
HttpStatus2Keys ==
  {"CONTINUE", "SWITCHING_PROTOCOLS", "PROCESSING", "EARLY_HINTS", "OK",
   "CREATED", "ACCEPTED", "NON_AUTHORITATIVE_INFORMATION", "NO_CONTENT",
   "RESET_CONTENT", "PARTIAL_CONTENT", "AMBIGUOUS", "MOVED_PERMANENTLY",
   "FOUND", "SEE_OTHER", "NOT_MODIFIED", "TEMPORARY_REDIRECT",
   "PERMANENT_REDIRECT", "BAD_REQUEST", "UNAUTHORIZED", "PAYMENT_REQUIRED",
   "FORBIDDEN", "NOT_FOUND", "METHOD_NOT_ALLOWED", "NOT_ACCEPTABLE",
   "PROXY_AUTHENTICATION_REQUIRED", "REQUEST_TIMEOUT", "CONFLICT", "GONE",
   "LENGTH_REQUIRED", "PRECONDITION_FAILED", "PAYLOAD_TOO_LARGE",
   "URI_TOO_LONG", "UNSUPPORTED_MEDIA_TYPE",
   "REQUESTED_RANGE_NOT_SATISFIABLE", "EXPECTATION_FAILED", "I_AM_A_TEAPOT",
   "MISDIRECTED_REQUEST", "UNPROCESSABLE_ENTITY", "FAILED_DEPENDENCY",
   "PRECONDITION_REQUIRED", "TOO_MANY_REQUESTS", "INTERNAL_SERVER_ERROR",
   "NOT_IMPLEMENTED", "BAD_GATEWAY", "SERVICE_UNAVAILABLE",
   "GATEWAY_TIMEOUT", "HTTP_VERSION_NOT_SUPPORTED",
   "VARIANT_ALSO_NEGOTIATES", "INSUFFICIENT_STORAGE", "LOOP_DETECTED",
   "BANDWIDTH_LIMIT_EXCEEDED", "NOT_EXTENDED",
   "NETWORK_AUTHENTICATION_REQUIRED"}

TableVersions == {1, 2}

\* the characters of a name put together into one string
RECURSIVE Join(_)
Join(s) == IF s = <<>> THEN "" ELSE s[1] \o Join(Tail(s))

\* the constants of one version of the table
KeysOf(version) == IF version = 1 THEN HttpStatusKeys ELSE HttpStatus2Keys
\* HttpStatus[key]
CodeOf(version, key) ==
  IF version = 1 THEN HttpStatus(key) ELSE HttpStatus2(key)
\* HttpStatus[`${c}_NAME`] in version 1, HttpStatus.NAMES[`$${c}`] in version 2
NameOf(version, c) ==
  IF version = 1 THEN Join(HttpStatus_NAME(c)) ELSE HttpStatus2_NAMES(c)

\* one constant of one version of the table is looked up
InitTable ==
  /\ pc = [i \in Invs |-> "idle"]
  /\ func = [i \in Invs |-> NoFunc]
  /\ p0 = [i \in Invs |-> NoPromise]
  /\ p1 = [i \in Invs |-> NoPromise]
  /\ p2 = [i \in Invs |-> NoPromise]
  /\ resLog = [r \in Invs |-> <<>>]
  /\ nextLog = [k \in Invs |-> <<>>]
  /\ thenable = [i \in Invs |-> NoPromise]
  /\ statusArg = 500
  /\ errName = <<>>
  /\ ErrIdle
  /\ ProxyIdle
  /\ \E version \in TableVersions :
       \E key \in KeysOf(version) :
         lookup = Lookup(version, key, "key", 0, "", 0)

\* const c = HttpStatus[key]
readCode ==
  /\ lookup.stage = "key"
  /\ lookup' = [lookup EXCEPT !.stage = "code",
                              !.code = CodeOf(lookup.version, lookup.key)]
  /\ UNCHANGED <<handlerVars, nameVars, errVars, proxyVars>>

\* const name = HttpStatus[`${c}_NAME`], or HttpStatus.NAMES[`$${c}`]
readName ==
  /\ lookup.stage = "code"
  /\ lookup' = [lookup EXCEPT !.stage = "name",
                              !.name = NameOf(lookup.version, lookup.code)]
  /\ UNCHANGED <<handlerVars, nameVars, errVars, proxyVars>>

\* HttpStatus[name]
readBack ==
  /\ lookup.stage = "name"
  /\ lookup' = [lookup EXCEPT !.stage = "back",
                              !.back = CodeOf(lookup.version, lookup.name)]
  /\ UNCHANGED <<handlerVars, nameVars, errVars, proxyVars>>

NextTable ==
  \/ readCode
  \/ readName
  \/ readBack

SpecTable == InitTable /\ [][NextTable]_vars

\* C30: in each version of the table every numeric constant K = c has a
\* name entry for c, the name entry is K, and the constant of that name is
\* c again.
C30_TableConsistent ==
  lookup.stage = "back" =>
    /\ lookup.code /= 0
    /\ lookup.name /= ""
    /\ lookup.name = lookup.key
    /\ lookup.back = lookup.code

====
